---- MODULE Spec2Model ----
(***************************************************************************)
(* Model of the adb connection coordinator (adbconnection.cc): the worker  *)
(* thread's poll loop, the local JDWP handshake / DDM packet handling, the *)
(* fd handoff to the JDWP agent, and the environment it talks to (adbd,    *)
(* the debugger client on the jdwp socket, the agent's control socket).    *)
(***************************************************************************)
EXTENDS Integers, Sequences, FiniteSets, TLC

(***************************************************************************)
(* Bounds of the model.                                                    *)
(***************************************************************************)
\* number of client connections adbd hands over during a run
MaxConn == 2
\* capacity of the modelled receive queue of the jdwp socket, in bytes
MaxBuf == 34
\* number of agent control messages that may be queued unread
MaxAgentQueue == 1
\* number of writes of the debugger that may be queued unread
MaxWrites == 2
\* size of what the debugger adds to data that is still unread, in bytes
MaxTail == 1

(***************************************************************************)
(* Program constants.                                                      *)
(***************************************************************************)
kJdwpHeaderLen == 11
kPacketHeaderLen == 11
kPacketSizeOff == 0
kPacketIdOff == 4
kPacketCommandSetOff == 9
kPacketCommandOff == 10
kDdmCommandSet == 199
kDdmChunkCommand == 1
kJdwpDdmCmdSet == 199
kJdwpDdmCmd == 1
\* DdmPacketType::kCmd / kReply, the flags byte of a jdwp packet
DdmPacketType_kCmd == 0
DdmPacketType_kReply == 128

\* "JDWP-Handshake"
kJdwpHandshake == <<74, 68, 87, 80, 45, 72, 97, 110, 100, 115, 104, 97, 107, 101>>

\* sizeof(kJdwpHandshake)
SizeofHandshake == Len(kJdwpHandshake)

\* Messages sent from the transport (the agent) to the coordinator
kListenStartMessage == "listen-start"
kListenEndMessage == "listen-end"
kAcceptMessage == "accept"
kCloseMessage == "close"
kHandshakeCompleteMessage == "handshake-complete"
\* Messages sent to the transport
kPerformHandshakeMessage == "perform-handshake"
kSkipHandshakeMessage == "skip-handshake"

(***************************************************************************)
(* Byte-level helpers.                                                     *)
(***************************************************************************)
Min(a, b) == IF a < b THEN a ELSE b

\* the first n bytes of s (all of s when it is shorter): what recv returns
Take(s, n) == SubSeq(s, 1, Min(n, Len(s)))

\* s without its first n bytes: what recv leaves in the queue
Drop(s, n) == SubSeq(s, Min(n, Len(s)) + 1, Len(s))

\* htonl followed by a byte-wise store: the four bytes of n, most significant first
Htonl(n) == <<(n \div 16777216) % 256, (n \div 65536) % 256, (n \div 256) % 256, n % 256>>

\* the big-endian 32-bit value stored at 0-based offset off of buf
Ntohl(buf, off) ==
    buf[off + 1] * 16777216 + buf[off + 2] * 65536 + buf[off + 3] * 256 + buf[off + 4]

\* a comparison that leaves out the last byte
StrncmpEqShort(a, b, n) == Take(a, n - 1) = Take(b, n - 1)

\* strncmp(a, b, n) == 0: bytes agree up to n or up to a NUL common to both
RECURSIVE StrncmpEq(_, _, _)
StrncmpEq(a, b, n) ==
    IF n = 0 THEN TRUE
    ELSE IF Len(a) = 0 \/ Len(b) = 0 THEN Len(a) = Len(b)
    ELSE IF Head(a) # Head(b) THEN FALSE
    ELSE IF Head(a) = 0 THEN TRUE
    ELSE StrncmpEq(Tail(a), Tail(b), n - 1)

(***************************************************************************)
(* State.                                                                  *)
(***************************************************************************)
VARIABLES
    st,     \* the fields of AdbConnectionState
    env,    \* the kernel objects and peers outside the coordinator
    obs,    \* what the last step of the worker did (calls made, bytes written)
    hist,   \* history of the run: last notification sent, escalation of the connection
    pc      \* where the worker thread is: "connect", "poll" or "done"

vars == <<st, env, obs, hist, pc>>

\* Dbg::DdmHandleChunk was not called
NoCall ==
    [ called |-> FALSE, id |-> 0, type |-> 0, data |-> <<>>,
      handled |-> FALSE, reply_type |-> 0, reply |-> <<>> ]

\* no effect: the value of obs after a step that is not a handler of the worker
NoObs ==
    [ branch    |-> "none",
      msg       |-> "none",    \* what recv on the agent control socket returned
      send      |-> <<>>,      \* the bytes handed to send/writev on the jdwp socket
      nsend     |-> 0,         \* number of send/writev calls on the jdwp socket
      sendRes   |-> "none",    \* what send returned: "none", "full" or "short"
      consumed  |-> 0,         \* bytes removed from the jdwp socket's receive queue
      peeked    |-> FALSE,     \* the packet header was peeked
      cb        |-> NoCall,    \* the call of Dbg::DdmHandleChunk and what it returned
      attach    |-> "none",    \* AttachJdwpAgent: "none", "ok", "fail"
      handoff   |-> "none",    \* the message of SendAgentFds, "none" when not called
      handoffFd |-> -1,        \* adb_connection_socket_ when SendAgentFds was entered
      handoffOk |-> FALSE,     \* sendmsg succeeded
      notify    |-> <<>>,      \* the arguments of the NotifyDdms calls, in order
      closed    |-> FALSE,     \* CloseFds ran
      dropped   |-> FALSE,     \* a connection was received and closed at once
      check     |-> {},        \* the CHECKs that failed (fatal in every build)
      dcheck    |-> {} ]       \* the DCHECKs that failed (fatal in debug builds only)

Init ==
    /\ st = [ control_ctx_ |-> FALSE,
              adb_connection_socket_ |-> -1,
              shutting_down_ |-> FALSE,
              agent_loaded_ |-> FALSE,
              agent_listening_ |-> FALSE,
              agent_has_socket_ |-> FALSE,
              sent_agent_fds_ |-> FALSE,
              performed_handshake_ |-> FALSE,
              notified_ddm_active_ |-> FALSE ]
    /\ \E d \in BOOLEAN :
         env = [ debuggable |-> d,     \* IsDebuggingPossible(), fixed for the process
                 rcvbuf |-> <<>>,      \* receive queue of the jdwp socket
                 peer_closed |-> FALSE,\* the debugger closed its end of the jdwp socket
                 writes |-> 0,         \* unread writes of the debugger on the jdwp socket
                 agent_msgs |-> 0,     \* unread messages on local_agent_control_sock_
                 daemon_ev |-> "none", \* adbd's control socket: "none", "fd" (a connection
                                       \* is queued), "second" (one that arrived while a
                                       \* jdwp socket was owned), "hup"
                 next_fd |-> 1 ]       \* the next connection adbd will hand over
    /\ obs = NoObs
    /\ hist = [ last_notify |-> "none",   \* the last notification given to the ddm code
                escalated |-> FALSE,      \* AttachJdwpAgent ran on the current connection
                handshook |-> FALSE ]     \* the peer of the current connection was
                                          \* answered a handshake, here or by the agent
    /\ pc = "connect"

(***************************************************************************)
(* The methods of AdbConnectionState.  Each takes the machine w, a record  *)
(* [st, env, obs, hist], and yields the machine after the call.            *)
(*                                                                         *)
(* System calls whose result depends on the peer are inputs of the         *)
(* handlers: send on the jdwp socket, sendmsg to the agent, AttachAgent,   *)
(* adbconnection_client_receive_jdwp_fd, recv on the agent control socket. *)
(* ioctl(FIONREAD) and recv on the jdwp socket, a local stream socket,     *)
(* return what the receive queue holds: recv yields 0 bytes only when the  *)
(* queue is empty, which poll reports as readable only after the peer      *)
(* closed.  A failed DCHECK is recorded and the run goes on, as in a       *)
(* release build; a failed CHECK ends the worker.                          *)
(***************************************************************************)
Machine == [st |-> st, env |-> env, obs |-> NoObs, hist |-> hist]

\* NotifyDdms(active)
NotifyDdms(w, active) ==
    [w EXCEPT
        !.obs.dcheck = IF w.st.notified_ddm_active_ = active
                       THEN @ \cup {"NotifyDdms: notified_ddm_active_ != active"} ELSE @,
        !.st.notified_ddm_active_ = active,
        !.obs.notify = Append(@, active),
        !.hist.last_notify = IF active THEN "active" ELSE "inactive"]

\* a CloseFds that tells the ddm code also when nothing was announced
CloseFdsAlwaysNotifying(w) ==
    LET w1 == [w EXCEPT !.st.adb_connection_socket_ = -1,
                        !.env.rcvbuf = <<>>,
                        !.env.peer_closed = FALSE,
                        !.st.performed_handshake_ = FALSE,
                        !.hist.handshook = FALSE,
                        !.obs.closed = TRUE]
    IN  IF ~w1.st.agent_loaded_
        THEN NotifyDdms(w1, FALSE)
        ELSE w1

\* CloseFds(): the jdwp socket is closed under the write lock, so its queue is gone
CloseFds(w) ==
    LET w1 == [w EXCEPT !.st.adb_connection_socket_ = -1,
                        !.env.rcvbuf = <<>>,
                        !.env.peer_closed = FALSE,
                        !.st.performed_handshake_ = FALSE,
                        !.hist.handshook = FALSE,
                        !.obs.closed = TRUE]
    IN  IF ~w1.st.agent_loaded_ /\ w1.st.notified_ddm_active_
        THEN NotifyDdms(w1, FALSE)
        ELSE w1

\* a packet whose length field leaves out the chunk header
DdmPacketBytesShortLength(id, packet_type, type, data) ==
    Htonl(kJdwpHeaderLen + Len(data))
    \o Htonl(id)
    \o <<packet_type>>
    \o (IF packet_type = DdmPacketType_kCmd THEN <<kJdwpDdmCmdSet, kJdwpDdmCmd>> ELSE <<0, 0>>)
    \o Htonl(type)
    \o Htonl(Len(data))
    \o data

\* the bytes SendDdmPacket hands to writev: the 19-byte header, then the data
DdmPacketBytes(id, packet_type, type, data) ==
    Htonl(kJdwpHeaderLen + 4 + 4 + Len(data))
    \o Htonl(id)
    \o <<packet_type>>
    \o (IF packet_type = DdmPacketType_kCmd THEN <<kJdwpDdmCmdSet, kJdwpDdmCmd>> ELSE <<0, 0>>)
    \o Htonl(type)
    \o Htonl(Len(data))
    \o data

\* SendDdmPacket(id, packet_type, type, data); the result of writev only selects a log line
SendDdmPacket(w, id, packet_type, type, data) ==
    IF w.st.adb_connection_socket_ = -1 \/ ~w.st.performed_handshake_
    THEN w
    ELSE [w EXCEPT !.obs.send = DdmPacketBytes(id, packet_type, type, data),
                   !.obs.nsend = @ + 1]

\* a handoff that marks the fds as sent whether or not sendmsg succeeded
SendAgentFdsIgnoringResult(w, require_handshake, sendmsg_ok) ==
    [w EXCEPT
        !.obs.dcheck = IF w.st.sent_agent_fds_
                       THEN @ \cup {"SendAgentFds: !sent_agent_fds_"} ELSE @,
        !.obs.check = IF w.st.adb_connection_socket_ = -1
                      THEN @ \cup {"SendAgentFds: read_fd != -1"} ELSE @,
        !.obs.handoff = IF require_handshake THEN kPerformHandshakeMessage
                                             ELSE kSkipHandshakeMessage,
        !.obs.handoffFd = w.st.adb_connection_socket_,
        !.obs.handoffOk = sendmsg_ok,
        !.st.sent_agent_fds_ = TRUE]

\* SendAgentFds(require_handshake); sendmsg_ok is the outcome of sendmsg
SendAgentFds(w, require_handshake, sendmsg_ok) ==
    LET w1 == [w EXCEPT
                 !.obs.dcheck = IF w.st.sent_agent_fds_
                                THEN @ \cup {"SendAgentFds: !sent_agent_fds_"} ELSE @,
                 !.obs.check = IF w.st.adb_connection_socket_ = -1
                               THEN @ \cup {"SendAgentFds: read_fd != -1"} ELSE @,
                 !.obs.handoff = IF require_handshake THEN kPerformHandshakeMessage
                                                      ELSE kSkipHandshakeMessage,
                 !.obs.handoffFd = w.st.adb_connection_socket_,
                 !.obs.handoffOk = sendmsg_ok]
    IN  IF sendmsg_ok THEN [w1 EXCEPT !.st.sent_agent_fds_ = TRUE] ELSE w1

\* AttachJdwpAgent(self); attach_ok is false when AttachAgent leaves an exception pending
AttachJdwpAgent(w, attach_ok) ==
    LET w1 == [w EXCEPT !.obs.attach = IF attach_ok THEN "ok" ELSE "fail",
                        !.hist.escalated = TRUE]
    IN  IF attach_ok THEN [w1 EXCEPT !.st.agent_loaded_ = TRUE] ELSE w1

\* a handshake that reads the client's bytes without taking them off the queue
PerformHandshakePeeking(w, send_ok) ==
    LET avail == Len(w.env.rcvbuf)
        handshake_msg == Take(w.env.rcvbuf, SizeofHandshake)
        res == Len(handshake_msg)
        w1 == [w EXCEPT !.obs.consumed = 0]
        w2 == [w1 EXCEPT !.obs.send = kJdwpHandshake,
                         !.obs.nsend = @ + 1,
                         !.obs.sendRes = IF send_ok THEN "full" ELSE "short"]
    IN  IF avail < SizeofHandshake THEN CloseFds(w)
        ELSE IF res < SizeofHandshake
                \/ ~StrncmpEq(handshake_msg, kJdwpHandshake, SizeofHandshake)
        THEN CloseFds(w1)
        ELSE IF ~send_ok THEN CloseFds(w2)
        ELSE [w2 EXCEPT !.st.performed_handshake_ = TRUE,
                        !.hist.handshook = TRUE]

\* PerformHandshake(); send_ok is false when send writes fewer than 14 bytes
PerformHandshake(w, send_ok) ==
    LET avail == Len(w.env.rcvbuf)
        handshake_msg == Take(w.env.rcvbuf, SizeofHandshake)
        res == Len(handshake_msg)
        w0 == [w EXCEPT !.obs.check = IF w.st.performed_handshake_
                                      THEN @ \cup {"PerformHandshake: !performed_handshake_"}
                                      ELSE @]
        w1 == [w0 EXCEPT !.env.rcvbuf = Drop(@, SizeofHandshake),
                         !.obs.consumed = res]
        w2 == [w1 EXCEPT !.obs.send = kJdwpHandshake,
                         !.obs.nsend = @ + 1,
                         !.obs.sendRes = IF send_ok THEN "full" ELSE "short"]
    IN  IF avail < SizeofHandshake THEN CloseFds(w0)
        ELSE IF res < SizeofHandshake
                \/ ~StrncmpEq(handshake_msg, kJdwpHandshake, SizeofHandshake)
        THEN CloseFds(w1)
        ELSE IF ~send_ok THEN CloseFds(w2)
        ELSE [w2 EXCEPT !.st.performed_handshake_ = TRUE,
                        !.hist.handshook = TRUE]

\* a chunk handler that announces the connection before it checks the chunk's framing
HandleChunkNotifyingEarly(w, full_pkt, full_len, pkt_id, in) ==
    LET data_size == full_len - kPacketHeaderLen
        ddm_type == Ntohl(full_pkt, kPacketHeaderLen)
        ddm_len == Ntohl(full_pkt, kPacketHeaderLen + 4)
        ddm_data == SubSeq(full_pkt, kPacketHeaderLen + 9, kPacketHeaderLen + 8 + ddm_len)
        w1 == IF ~w.st.notified_ddm_active_ THEN NotifyDdms(w, TRUE) ELSE w
        w2 == [w1 EXCEPT !.obs.cb = [called |-> TRUE, id |-> pkt_id,
                                     type |-> ddm_type, data |-> ddm_data,
                                     handled |-> in.handled,
                                     reply_type |-> in.reply_type,
                                     reply |-> in.reply]]
    IN  IF data_size < 8 THEN w1
        ELSE IF ddm_len > data_size - 8 THEN w1
        ELSE IF ~in.handled THEN w2
        ELSE SendDdmPacket(w2, pkt_id, DdmPacketType_kReply, in.reply_type, in.reply)

\* a chunk handler that attaches the agent for a chunk whose framing is wrong
HandleChunkEscalating(w, full_pkt, full_len, pkt_id, in) ==
    LET data_size == full_len - kPacketHeaderLen
        ddm_type == Ntohl(full_pkt, kPacketHeaderLen)
        ddm_len == Ntohl(full_pkt, kPacketHeaderLen + 4)
        ddm_data == SubSeq(full_pkt, kPacketHeaderLen + 9, kPacketHeaderLen + 8 + ddm_len)
        w1 == IF ~w.st.notified_ddm_active_ THEN NotifyDdms(w, TRUE) ELSE w
        w2 == [w1 EXCEPT !.obs.cb = [called |-> TRUE, id |-> pkt_id,
                                     type |-> ddm_type, data |-> ddm_data,
                                     handled |-> in.handled,
                                     reply_type |-> in.reply_type,
                                     reply |-> in.reply]]
    IN  IF data_size < 8 THEN AttachJdwpAgent(w, in.attach_ok)
        ELSE IF ddm_len > data_size - 8 THEN AttachJdwpAgent(w, in.attach_ok)
        ELSE IF ~in.handled THEN w2
        ELSE SendDdmPacket(w2, pkt_id, DdmPacketType_kReply, in.reply_type, in.reply)

\* the part of HandleDataWithoutAgent after the whole packet was read: the ddm chunk
\* is checked, announced, given to Dbg::DdmHandleChunk and answered
HandleChunk(w, full_pkt, full_len, pkt_id, in) ==
    LET data_size == full_len - kPacketHeaderLen
        ddm_type == Ntohl(full_pkt, kPacketHeaderLen)
        ddm_len == Ntohl(full_pkt, kPacketHeaderLen + 4)
        ddm_data == SubSeq(full_pkt, kPacketHeaderLen + 9, kPacketHeaderLen + 8 + ddm_len)
        w1 == IF ~w.st.notified_ddm_active_ THEN NotifyDdms(w, TRUE) ELSE w
        w2 == [w1 EXCEPT !.obs.cb = [called |-> TRUE, id |-> pkt_id,
                                     type |-> ddm_type, data |-> ddm_data,
                                     handled |-> in.handled,
                                     reply_type |-> in.reply_type,
                                     reply |-> in.reply]]
    IN  IF data_size < 8 THEN w
        ELSE IF ddm_len > data_size - 8 THEN w
        ELSE IF ~in.handled THEN w2
        ELSE SendDdmPacket(w2, pkt_id, DdmPacketType_kReply, in.reply_type, in.reply)

\* a handler that closes the connection when it meets a packet it cannot handle
HandleDataWithoutAgentClosing(w, in) ==
    LET packet_header == Take(w.env.rcvbuf, kPacketHeaderLen)
        res == Len(packet_header)
        wp == [w EXCEPT !.obs.peeked = TRUE]
        full_len == Ntohl(packet_header, kPacketSizeOff)
        pkt_id == Ntohl(packet_header, kPacketIdOff)
        pkt_cmd_set == packet_header[kPacketCommandSetOff + 1]
        pkt_cmd == packet_header[kPacketCommandOff + 1]
        avail == Len(w.env.rcvbuf)
        full_pkt == Take(w.env.rcvbuf, full_len)
        wr == [wp EXCEPT !.env.rcvbuf = Drop(@, full_len),
                         !.obs.consumed = full_len]
    IN  IF ~w.st.performed_handshake_ THEN PerformHandshake(w, in.send_ok)
        ELSE IF res <= 0 THEN CloseFds(wp)
        ELSE IF res < kPacketHeaderLen THEN CloseFds(wp)
        ELSE IF pkt_cmd_set # kDdmCommandSet
                \/ pkt_cmd # kDdmChunkCommand
                \/ full_len < kPacketHeaderLen
        THEN CloseFds(wp)
        ELSE IF avail < full_len THEN AttachJdwpAgent(wp, in.attach_ok)
        ELSE HandleChunk(wr, full_pkt, full_len, pkt_id, in)

\* a handler that reads the header off the socket where the code only peeks
HandleDataWithoutAgentReadingHeader(w, in) ==
    LET w0 == [w EXCEPT
                 !.obs.dcheck = @ \cup (IF w.st.agent_loaded_
                                        THEN {"HandleDataWithoutAgent: !agent_loaded_"}
                                        ELSE {})
                                  \cup (IF w.st.agent_listening_
                                        THEN {"HandleDataWithoutAgent: !agent_listening_"}
                                        ELSE {})]
        packet_header == Take(w.env.rcvbuf, kPacketHeaderLen)
        res == Len(packet_header)
        wp == [w0 EXCEPT !.obs.peeked = TRUE,
                         !.env.rcvbuf = Drop(@, kPacketHeaderLen),
                         !.obs.consumed = res]
        full_len == Ntohl(packet_header, kPacketSizeOff)
        pkt_id == Ntohl(packet_header, kPacketIdOff)
        pkt_cmd_set == packet_header[kPacketCommandSetOff + 1]
        pkt_cmd == packet_header[kPacketCommandOff + 1]
        avail == Len(w.env.rcvbuf)
        full_pkt == Take(w.env.rcvbuf, full_len)
        wr == [wp EXCEPT !.env.rcvbuf = Drop(@, full_len),
                         !.obs.consumed = full_len]
    IN  IF ~w.st.performed_handshake_ THEN PerformHandshake(w0, in.send_ok)
        ELSE IF res <= 0 THEN CloseFds(wp)
        ELSE IF res < kPacketHeaderLen THEN AttachJdwpAgent(wp, in.attach_ok)
        ELSE IF pkt_cmd_set # kDdmCommandSet
                \/ pkt_cmd # kDdmChunkCommand
                \/ full_len < kPacketHeaderLen
        THEN AttachJdwpAgent(wp, in.attach_ok)
        ELSE IF avail < full_len THEN AttachJdwpAgent(wp, in.attach_ok)
        ELSE HandleChunk(wr, full_pkt, full_len, pkt_id, in)

\* HandleDataWithoutAgent(self); in holds the outcomes of the calls it makes
HandleDataWithoutAgent(w, in) ==
    LET w0 == [w EXCEPT
                 !.obs.dcheck = @ \cup (IF w.st.agent_loaded_
                                        THEN {"HandleDataWithoutAgent: !agent_loaded_"}
                                        ELSE {})
                                  \cup (IF w.st.agent_listening_
                                        THEN {"HandleDataWithoutAgent: !agent_listening_"}
                                        ELSE {})]
        packet_header == Take(w.env.rcvbuf, kPacketHeaderLen)
        res == Len(packet_header)
        wp == [w0 EXCEPT !.obs.peeked = TRUE]
        full_len == Ntohl(packet_header, kPacketSizeOff)
        pkt_id == Ntohl(packet_header, kPacketIdOff)
        pkt_cmd_set == packet_header[kPacketCommandSetOff + 1]
        pkt_cmd == packet_header[kPacketCommandOff + 1]
        avail == Len(w.env.rcvbuf)
        full_pkt == Take(w.env.rcvbuf, full_len)
        wr == [wp EXCEPT !.env.rcvbuf = Drop(@, full_len),
                         !.obs.consumed = full_len]
    IN  IF ~w.st.performed_handshake_ THEN PerformHandshake(w0, in.send_ok)
        ELSE IF res <= 0 THEN CloseFds(wp)
        ELSE IF res < kPacketHeaderLen THEN AttachJdwpAgent(wp, in.attach_ok)
        ELSE IF pkt_cmd_set # kDdmCommandSet
                \/ pkt_cmd # kDdmChunkCommand
                \/ full_len < kPacketHeaderLen
        THEN AttachJdwpAgent(wp, in.attach_ok)
        ELSE IF avail < full_len THEN AttachJdwpAgent(wp, in.attach_ok)
        ELSE HandleChunk(wr, full_pkt, full_len, pkt_id, in)

(***************************************************************************)
(* RunPollLoop: the watch set, what poll reports, and the branches.        *)
(***************************************************************************)
\* pollfds[1]: the agent control socket is watched
WatchAgentControl(s) == s.agent_loaded_

\* adbd's control socket watched also while a debugger is connected
WatchControlSockAlways(s) == TRUE

\* pollfds[2]: adbd's control socket is watched
WatchControlSock(s) == s.adb_connection_socket_ = -1

\* should_listen_on_connection
ShouldListenOnConnection(s) == ~s.agent_has_socket_ /\ ~s.sent_agent_fds_

\* the jdwp socket watched also after its descriptors were sent to the agent
WatchAdbSocketAfterHandoff(s) == ~s.agent_has_socket_ /\ s.adb_connection_socket_ # -1

\* pollfds[3]: the jdwp socket is watched (poll ignores an fd of -1)
WatchAdbSocket(s) == ShouldListenOnConnection(s) /\ s.adb_connection_socket_ # -1

\* revents of the agent control socket has POLLIN
AgentControlPollIn == WatchAgentControl(st) /\ env.agent_msgs > 0

\* revents of adbd's control socket has POLLIN; in_with_hup: the kernel reports POLLIN
\* together with POLLRDHUP
ControlSockPollIn(in_with_hup) ==
    /\ st.control_ctx_
    /\ WatchControlSock(st)
    /\ \/ env.daemon_ev \in {"fd", "second"}
       \/ env.daemon_ev = "hup" /\ in_with_hup

\* revents of adbd's control socket has POLLRDHUP
ControlSockPollRdhup ==
    st.control_ctx_ /\ WatchControlSock(st) /\ env.daemon_ev = "hup"

\* revents of the jdwp socket has POLLIN; in_with_hup as above
AdbSocketPollIn(in_with_hup) ==
    /\ WatchAdbSocket(st)
    /\ \/ env.rcvbuf # <<>>
       \/ env.peer_closed /\ in_with_hup

\* revents of the jdwp socket has POLLRDHUP
AdbSocketPollRdhup == WatchAdbSocket(st) /\ env.peer_closed

\* a listen-start that hands off whether or not there is a jdwp socket
OnListenStartUnguarded(w, sendmsg_ok) ==
    SendAgentFds([w EXCEPT !.st.agent_listening_ = TRUE],
                 ~w.st.performed_handshake_, sendmsg_ok)

\* a listen-start that always asks the agent for a handshake
OnListenStartRequiringHandshake(w, sendmsg_ok) ==
    LET w1 == [w EXCEPT !.st.agent_listening_ = TRUE]
    IN  IF w1.st.adb_connection_socket_ # -1
        THEN SendAgentFds(w1, TRUE, sendmsg_ok)
        ELSE w1

\* the agent sent kListenStartMessage
OnListenStart(w, sendmsg_ok) ==
    LET w1 == [w EXCEPT !.st.agent_listening_ = TRUE]
    IN  IF w1.st.adb_connection_socket_ # -1
        THEN SendAgentFds(w1, ~w1.st.performed_handshake_, sendmsg_ok)
        ELSE w1

\* an accept that leaves performed_handshake_ as it is
OnAgentControlKeepingHandshake(w, msg, sendmsg_ok) ==
    LET w0 == [w EXCEPT
                 !.obs.msg = msg,
                 !.obs.check = IF ~w.env.debuggable
                               THEN @ \cup {"agent control: IsDebuggingPossible()"} ELSE @,
                 !.obs.dcheck = IF ~w.st.agent_loaded_
                                THEN @ \cup {"agent control: agent_loaded_"} ELSE @]
    IN  IF msg = kListenStartMessage THEN OnListenStart(w0, sendmsg_ok)
        ELSE IF msg = kListenEndMessage THEN
            [w0 EXCEPT !.st.agent_listening_ = FALSE]
        ELSE IF msg = kHandshakeCompleteMessage THEN
            IF w0.st.agent_has_socket_
            THEN [w0 EXCEPT !.st.performed_handshake_ = TRUE,
                            !.hist.handshook = (w0.st.adb_connection_socket_ # -1)]
            ELSE w0
        ELSE IF msg = kCloseMessage THEN
            [CloseFds(w0) EXCEPT !.st.agent_has_socket_ = FALSE]
        ELSE IF msg = kAcceptMessage THEN
            [w0 EXCEPT !.st.agent_has_socket_ = TRUE,
                       !.st.sent_agent_fds_ = FALSE]
        ELSE w0

\* a close that only clears agent_has_socket_
OnAgentControlCloseKeepingSocket(w, msg, sendmsg_ok) ==
    LET w0 == [w EXCEPT
                 !.obs.msg = msg,
                 !.obs.check = IF ~w.env.debuggable
                               THEN @ \cup {"agent control: IsDebuggingPossible()"} ELSE @,
                 !.obs.dcheck = IF ~w.st.agent_loaded_
                                THEN @ \cup {"agent control: agent_loaded_"} ELSE @]
    IN  IF msg = kListenStartMessage THEN OnListenStart(w0, sendmsg_ok)
        ELSE IF msg = kListenEndMessage THEN
            [w0 EXCEPT !.st.agent_listening_ = FALSE]
        ELSE IF msg = kHandshakeCompleteMessage THEN
            IF w0.st.agent_has_socket_
            THEN [w0 EXCEPT !.st.performed_handshake_ = TRUE,
                            !.hist.handshook = (w0.st.adb_connection_socket_ # -1)]
            ELSE w0
        ELSE IF msg = kCloseMessage THEN
            [w0 EXCEPT !.st.agent_has_socket_ = FALSE]
        ELSE IF msg = kAcceptMessage THEN
            [w0 EXCEPT !.st.agent_has_socket_ = TRUE,
                       !.st.sent_agent_fds_ = FALSE,
                       !.st.performed_handshake_ = FALSE]
        ELSE w0

\* a handshake-complete that is believed whoever has the socket
OnAgentControlAlwaysHandshook(w, msg, sendmsg_ok) ==
    LET w0 == [w EXCEPT
                 !.obs.msg = msg,
                 !.obs.check = IF ~w.env.debuggable
                               THEN @ \cup {"agent control: IsDebuggingPossible()"} ELSE @,
                 !.obs.dcheck = IF ~w.st.agent_loaded_
                                THEN @ \cup {"agent control: agent_loaded_"} ELSE @]
    IN  IF msg = kListenStartMessage THEN OnListenStart(w0, sendmsg_ok)
        ELSE IF msg = kListenEndMessage THEN
            [w0 EXCEPT !.st.agent_listening_ = FALSE]
        ELSE IF msg = kHandshakeCompleteMessage THEN
            [w0 EXCEPT !.st.performed_handshake_ = TRUE,
                       !.hist.handshook = (w0.st.adb_connection_socket_ # -1)]
        ELSE IF msg = kCloseMessage THEN
            [CloseFds(w0) EXCEPT !.st.agent_has_socket_ = FALSE]
        ELSE IF msg = kAcceptMessage THEN
            [w0 EXCEPT !.st.agent_has_socket_ = TRUE,
                       !.st.sent_agent_fds_ = FALSE,
                       !.st.performed_handshake_ = FALSE]
        ELSE w0

\* the branch taken when the agent control socket is readable; msg is what recv returned
OnAgentControl(w, msg, sendmsg_ok) ==
    LET w0 == [w EXCEPT
                 !.obs.msg = msg,
                 !.obs.check = IF ~w.env.debuggable
                               THEN @ \cup {"agent control: IsDebuggingPossible()"} ELSE @,
                 !.obs.dcheck = IF ~w.st.agent_loaded_
                                THEN @ \cup {"agent control: agent_loaded_"} ELSE @]
    IN  IF msg = kListenStartMessage THEN OnListenStart(w0, sendmsg_ok)
        ELSE IF msg = kListenEndMessage THEN
            [w0 EXCEPT !.st.agent_listening_ = FALSE]
        ELSE IF msg = kHandshakeCompleteMessage THEN
            IF w0.st.agent_has_socket_
            THEN [w0 EXCEPT !.st.performed_handshake_ = TRUE,
                            !.hist.handshook = (w0.st.adb_connection_socket_ # -1)]
            ELSE w0
        ELSE IF msg = kCloseMessage THEN
            [CloseFds(w0) EXCEPT !.st.agent_has_socket_ = FALSE]
        ELSE IF msg = kAcceptMessage THEN
            [w0 EXCEPT !.st.agent_has_socket_ = TRUE,
                       !.st.sent_agent_fds_ = FALSE,
                       !.st.performed_handshake_ = FALSE]
        ELSE w0

\* an adoption that asks the agent for a handshake only if performed_handshake_ is false
OnControlSockReadableTrustingHandshake(w, recv_ok, sendmsg_ok) ==
    LET new_fd == IF w.env.daemon_ev \in {"fd", "second"} /\ recv_ok
                  THEN w.env.next_fd ELSE -1
        wr == [w EXCEPT !.env.daemon_ev = IF @ \in {"fd", "second"} THEN "none" ELSE @,
                        !.env.next_fd = IF new_fd # -1 THEN @ + 1 ELSE @]
        w1 == [wr EXCEPT !.st.adb_connection_socket_ = new_fd,
                         !.env.rcvbuf = <<>>,
                         !.env.peer_closed = FALSE,
                         !.hist.escalated = FALSE,
                         !.hist.handshook = FALSE]
    IN  IF ~w.env.debuggable THEN [w EXCEPT !.st.control_ctx_ = FALSE]
        ELSE IF new_fd = -1 THEN [wr EXCEPT !.st.control_ctx_ = FALSE]
        ELSE IF w.st.adb_connection_socket_ # -1 THEN [wr EXCEPT !.obs.dropped = TRUE]
        ELSE IF w1.st.agent_loaded_ /\ w1.st.agent_listening_
        THEN SendAgentFds(w1, ~w1.st.performed_handshake_, sendmsg_ok)
        ELSE w1

\* a branch that receives the connection whether or not the process is debuggable
OnControlSockReadableInAnyProcess(w, recv_ok, sendmsg_ok) ==
    LET new_fd == IF w.env.daemon_ev \in {"fd", "second"} /\ recv_ok
                  THEN w.env.next_fd ELSE -1
        wr == [w EXCEPT !.env.daemon_ev = IF @ \in {"fd", "second"} THEN "none" ELSE @,
                        !.env.next_fd = IF new_fd # -1 THEN @ + 1 ELSE @]
        w1 == [wr EXCEPT !.st.adb_connection_socket_ = new_fd,
                         !.env.rcvbuf = <<>>,
                         !.env.peer_closed = FALSE,
                         !.hist.escalated = FALSE,
                         !.hist.handshook = FALSE]
    IN  IF new_fd = -1 THEN [wr EXCEPT !.st.control_ctx_ = FALSE]
        ELSE IF w.st.adb_connection_socket_ # -1 THEN [wr EXCEPT !.obs.dropped = TRUE]
        ELSE IF w1.st.agent_loaded_ /\ w1.st.agent_listening_
        THEN SendAgentFds(w1, TRUE, sendmsg_ok)
        ELSE w1

\* the branch taken when adbd's control socket is readable; recv_ok is false when
\* adbconnection_client_receive_jdwp_fd fails though adbd offered a connection
OnControlSockReadable(w, recv_ok, sendmsg_ok) ==
    LET new_fd == IF w.env.daemon_ev \in {"fd", "second"} /\ recv_ok
                  THEN w.env.next_fd ELSE -1
        wr == [w EXCEPT !.env.daemon_ev = IF @ \in {"fd", "second"} THEN "none" ELSE @,
                        !.env.next_fd = IF new_fd # -1 THEN @ + 1 ELSE @]
        w1 == [wr EXCEPT !.st.adb_connection_socket_ = new_fd,
                         !.env.rcvbuf = <<>>,
                         !.env.peer_closed = FALSE,
                         !.hist.escalated = FALSE,
                         !.hist.handshook = FALSE]
    IN  IF ~w.env.debuggable THEN [w EXCEPT !.st.control_ctx_ = FALSE]
        ELSE IF new_fd = -1 THEN [wr EXCEPT !.st.control_ctx_ = FALSE]
        ELSE IF w.st.adb_connection_socket_ # -1 THEN [wr EXCEPT !.obs.dropped = TRUE]
        ELSE IF w1.st.agent_loaded_ /\ w1.st.agent_listening_
        THEN SendAgentFds(w1, TRUE, sendmsg_ok)
        ELSE w1

\* the branch taken when adbd's control socket hung up
OnControlSockHangup(w) ==
    [w EXCEPT !.obs.dcheck = IF w.st.agent_has_socket_
                             THEN @ \cup {"control hangup: !agent_has_socket_"} ELSE @,
              !.st.control_ctx_ = FALSE]

\* a branch that handles the data locally whether or not the agent is loaded
OnAdbSocketReadableAlwaysLocal(w, in) ==
    LET w0 == [w EXCEPT
                 !.obs.check = IF ~w.env.debuggable
                               THEN @ \cup {"adb socket: IsDebuggingPossible()"} ELSE @,
                 !.obs.dcheck = IF w.st.agent_has_socket_
                                THEN @ \cup {"adb socket: !agent_has_socket_"} ELSE @]
    IN  HandleDataWithoutAgent(w0, in)

\* a branch that leaves the jdwp socket to the agent once the agent is loaded
OnAdbSocketReadableWithoutRetry(w, in) ==
    LET w0 == [w EXCEPT
                 !.obs.check = IF ~w.env.debuggable
                               THEN @ \cup {"adb socket: IsDebuggingPossible()"} ELSE @,
                 !.obs.dcheck = IF w.st.agent_has_socket_
                                THEN @ \cup {"adb socket: !agent_has_socket_"} ELSE @]
    IN  IF ~w0.st.agent_loaded_ THEN HandleDataWithoutAgent(w0, in)
        ELSE w0

\* the branch taken when the jdwp socket is readable
OnAdbSocketReadable(w, in) ==
    LET w0 == [w EXCEPT
                 !.obs.check = IF ~w.env.debuggable
                               THEN @ \cup {"adb socket: IsDebuggingPossible()"} ELSE @,
                 !.obs.dcheck = IF w.st.agent_has_socket_
                                THEN @ \cup {"adb socket: !agent_has_socket_"} ELSE @]
    IN  IF ~w0.st.agent_loaded_ THEN HandleDataWithoutAgent(w0, in)
        ELSE IF w0.st.agent_listening_ /\ ~w0.st.sent_agent_fds_
        THEN SendAgentFds(w0, TRUE, in.sendmsg_ok)
        ELSE w0

\* a hangup that is ignored once the agent is loaded
OnAdbSocketHangupBeforeAgentOnly(w) ==
    IF w.st.agent_loaded_ THEN w
    ELSE CloseFds([w EXCEPT
                !.obs.check = IF ~w.env.debuggable
                              THEN @ \cup {"adb hangup: IsDebuggingPossible()"} ELSE @,
                !.obs.dcheck = IF w.st.agent_has_socket_
                               THEN @ \cup {"adb hangup: !agent_has_socket_"} ELSE @])

\* the branch taken when the jdwp socket hung up
OnAdbSocketHangup(w) ==
    CloseFds([w EXCEPT
                !.obs.check = IF ~w.env.debuggable
                              THEN @ \cup {"adb hangup: IsDebuggingPossible()"} ELSE @,
                !.obs.dcheck = IF w.st.agent_has_socket_
                               THEN @ \cup {"adb hangup: !agent_has_socket_"} ELSE @])

(***************************************************************************)
(* Inputs of the model.                                                    *)
(***************************************************************************)
\* a jdwp packet: the 11-byte header, then the body
MkPacket(len, id, flags, cmd_set, cmd, body) ==
    Htonl(len) \o Htonl(id) \o <<flags, cmd_set, cmd>> \o body

\* a ddm chunk: type, length, data
MkChunk(type, len, data) == Htonl(type) \o Htonl(len) \o data

\* the chunk types 'H' 'E' 'L' 'O' and 'W' 'A' 'I' 'T'
TypeHELO == Ntohl(<<72, 69, 76, 79>>, 0)
TypeWAIT == Ntohl(<<87, 65, 73, 84>>, 0)

\* a well-formed ddm command packet
GoodPacket(id, type, data) ==
    MkPacket(kPacketHeaderLen + 8 + Len(data), id, 0, kDdmCommandSet, kDdmChunkCommand,
             MkChunk(type, Len(data), data))

PacketA == GoodPacket(7, TypeHELO, <<>>)
PacketB == GoodPacket(16909060, TypeWAIT, <<5, 6>>)

\* what the debugger may write to the jdwp socket in one go
ClientChunks ==
    { kJdwpHandshake,
      [kJdwpHandshake EXCEPT ![14] = 69],                 \* "JDWP-HandshakE"
      Take(kJdwpHandshake, 5),                            \* a handshake cut short
      kJdwpHandshake \o <<0, 0>>,                         \* a handshake and more
      kJdwpHandshake \o PacketA,                          \* a handshake and a packet
      PacketA,
      PacketB,
      PacketA \o <<0>>,                                   \* a packet and more
      Take(PacketB, 20),                                  \* all of PacketB but its last byte
      <<6>>,                                              \* ... and that last byte
      Take(PacketA, 5),                                   \* less than a header
      MkPacket(11, 7, 0, 1, 1, <<>>),                     \* VirtualMachine.Version
      MkPacket(5, 7, 0, kDdmCommandSet, kDdmChunkCommand, <<>>),    \* length below 11
      MkPacket(2130706432, 7, 0, kDdmCommandSet, kDdmChunkCommand, <<>>),
      MkPacket(15, 7, 0, kDdmCommandSet, kDdmChunkCommand, <<1, 2, 3, 4>>),
      MkPacket(21, 7, 0, kDdmCommandSet, kDdmChunkCommand, MkChunk(TypeHELO, 9, <<5, 6>>)) }

\* what the agent may write to its control socket
AgentMessages ==
    { kListenStartMessage, kListenEndMessage, kHandshakeCompleteMessage,
      kCloseMessage, kAcceptMessage, "unknown" }

\* the outcomes of the calls a handler of the jdwp socket makes
HandlerInputs ==
    [ send_ok : BOOLEAN, attach_ok : BOOLEAN, sendmsg_ok : BOOLEAN,
      handled : BOOLEAN, reply_type : {TypeWAIT}, reply : {<<>>, <<1, 2, 3>>} ]

(***************************************************************************)
(* Actions of the worker thread: one per way round the loop.               *)
(***************************************************************************)
\* the end of a handler: publish the machine and go round the loops
Step(w, branch) ==
    /\ st' = w.st
    /\ env' = [w.env EXCEPT !.writes = IF w.env.rcvbuf = <<>> THEN 0 ELSE @]
    /\ obs' = [w.obs EXCEPT !.branch = branch]
    /\ hist' = w.hist
    /\ pc' = IF w.obs.check # {} THEN "aborted"
             ELSE IF w.st.shutting_down_ THEN "done"
             ELSE IF w.st.control_ctx_ THEN "poll"
             ELSE "connect"

\* SetupAdbConnection(): one attempt to reach adbd
SetupAdbConnection ==
    /\ pc = "connect"
    /\ IF st.shutting_down_
       THEN Step(Machine, "setup-failed")
       ELSE \E connected \in BOOLEAN :
              IF connected
              THEN Step([Machine EXCEPT !.st.control_ctx_ = TRUE,
                                        !.env.daemon_ev = "none"], "setup")
              ELSE Step(Machine, "setup-retry")

AgentControlReadable ==
    /\ pc = "poll"
    /\ AgentControlPollIn
    /\ \E recv_ok \in BOOLEAN, msg \in AgentMessages, sendmsg_ok \in BOOLEAN :
         IF recv_ok
         THEN Step(OnAgentControl([Machine EXCEPT !.env.agent_msgs = @ - 1],
                                  msg, sendmsg_ok),
                   "agent-control")
         ELSE Step(Machine, "agent-control-retry")

\* adbd's control socket looked at before the agent control socket
ControlSockReadableFirst ==
    /\ pc = "poll"
    /\ \E in_with_hup \in BOOLEAN : ControlSockPollIn(in_with_hup)
    /\ \E recv_ok \in BOOLEAN, sendmsg_ok \in BOOLEAN :
         Step(OnControlSockReadable(Machine, recv_ok, sendmsg_ok), "control-readable")

ControlSockReadable ==
    /\ pc = "poll"
    /\ ~AgentControlPollIn
    /\ \E in_with_hup \in BOOLEAN : ControlSockPollIn(in_with_hup)
    /\ \E recv_ok \in BOOLEAN, sendmsg_ok \in BOOLEAN :
         Step(OnControlSockReadable(Machine, recv_ok, sendmsg_ok), "control-readable")

ControlSockHangup ==
    /\ pc = "poll"
    /\ ~AgentControlPollIn
    /\ \E in_with_hup \in BOOLEAN :
         ~ControlSockPollIn(in_with_hup) /\ ControlSockPollRdhup
    /\ Step(OnControlSockHangup(Machine), "control-hangup")

AdbSocketReadable ==
    /\ pc = "poll"
    /\ ~AgentControlPollIn
    /\ \E h1 \in BOOLEAN, h2 \in BOOLEAN :
         /\ ~ControlSockPollIn(h1)
         /\ ~ControlSockPollRdhup
         /\ AdbSocketPollIn(h2)
    /\ \E in \in HandlerInputs :
         Step(OnAdbSocketReadable(Machine, in), "adb-readable")

AdbSocketHangup ==
    /\ pc = "poll"
    /\ ~AgentControlPollIn
    /\ \E h1 \in BOOLEAN, h2 \in BOOLEAN :
         /\ ~ControlSockPollIn(h1)
         /\ ~ControlSockPollRdhup
         /\ ~AdbSocketPollIn(h2)
         /\ AdbSocketPollRdhup
    /\ Step(OnAdbSocketHangup(Machine), "adb-hangup")

\* poll returned for the wake eventfd alone
WokeUp ==
    /\ pc = "poll"
    /\ st.shutting_down_
    /\ ~AgentControlPollIn
    /\ ~ControlSockPollRdhup
    /\ ~ControlSockPollIn(FALSE)
    /\ ~AdbSocketPollRdhup
    /\ ~AdbSocketPollIn(FALSE)
    /\ Step(Machine, "woke-up")

\* poll failed: the worker returns
PollFailed ==
    /\ pc = "poll"
    /\ st' = st /\ env' = env /\ hist' = hist
    /\ obs' = [NoObs EXCEPT !.branch = "poll-failed"]
    /\ pc' = "done"

(***************************************************************************)
(* Actions of the other threads and of the peers.                          *)
(***************************************************************************)
\* StopDebuggerThreads(), on the runtime's shutdown path
StopDebuggerThreads ==
    /\ ~st.shutting_down_
    /\ st' = [st EXCEPT !.shutting_down_ = TRUE]
    /\ obs' = NoObs
    /\ UNCHANGED <<env, hist, pc>>

Peer(e) ==
    /\ pc \in {"connect", "poll"}
    /\ env' = e
    /\ obs' = NoObs
    /\ UNCHANGED <<st, hist, pc>>

\* the agent writes a message to its control socket; which one it is shows when the
\* worker reads it
AgentSends ==
    /\ st.agent_loaded_
    /\ env.agent_msgs < MaxAgentQueue
    /\ Peer([env EXCEPT !.agent_msgs = @ + 1])

\* adbd has a new debugger connection to hand over
DaemonOffers ==
    /\ st.control_ctx_
    /\ env.daemon_ev = "none"
    /\ env.next_fd <= MaxConn
    /\ Peer([env EXCEPT !.daemon_ev = IF st.adb_connection_socket_ # -1
                                      THEN "second" ELSE "fd"])

\* adbd goes away
DaemonDrops ==
    /\ st.control_ctx_
    /\ env.daemon_ev # "hup"
    /\ Peer([env EXCEPT !.daemon_ev = "hup"])

\* the debugger writes to the jdwp socket.  Once the agent is loaded the worker never
\* looks at the bytes, only at whether there are any.
ClientSends ==
    /\ st.adb_connection_socket_ # -1
    /\ ~env.peer_closed
    /\ ~st.agent_has_socket_
    /\ IF st.agent_loaded_
       THEN /\ env.rcvbuf = <<>>
            /\ Peer([env EXCEPT !.rcvbuf = <<6>>, !.writes = 1])
       ELSE \E chunk \in ClientChunks :
              /\ env.writes < MaxWrites
              /\ env.rcvbuf = <<>> \/ Len(chunk) <= MaxTail
              /\ Len(env.rcvbuf) + Len(chunk) <= MaxBuf
              /\ Peer([env EXCEPT !.rcvbuf = @ \o chunk, !.writes = @ + 1])

\* the debugger closes its end of the jdwp socket
ClientCloses ==
    /\ st.adb_connection_socket_ # -1
    /\ ~env.peer_closed
    /\ Peer([env EXCEPT !.peer_closed = TRUE])

Next ==
    \/ SetupAdbConnection
    \/ AgentControlReadable
    \/ ControlSockReadable
    \/ ControlSockHangup
    \/ AdbSocketReadable
    \/ AdbSocketHangup
    \/ WokeUp
    \/ PollFailed
    \/ StopDebuggerThreads
    \/ AgentSends
    \/ DaemonOffers
    \/ DaemonDrops
    \/ ClientSends
    \/ ClientCloses

Spec == Init /\ [][Next]_vars

(***************************************************************************)
(* The life of the worker thread, one step of a thread at a time:          *)
(* StartDebuggerThreads on the starting thread, CallbackFunction and the   *)
(* skeleton of RunPollLoop and SetupAdbConnection on the worker, and       *)
(* StopDebuggerThreads on the thread that shuts the runtime down.  In this *)
(* specification st holds the descriptors and flags of AdbConnectionState, *)
(* env the runtime and the kernel, obs the locals of SetupAdbConnection,   *)
(* hist the calls made to the thread-birth barrier, and pc the position of *)
(* each of the three threads.  What a handler of the poll loop does to the *)
(* connection is left to Spec; here a handler only keeps or drops the      *)
(* session with adbd.                                                      *)
(***************************************************************************)
\* number of failed attempts to reach adbd within one SetupAdbConnection
MaxAttempts == 6
\* number of events, other than the wake-up, that poll reports during a run
MaxEvents == 2

\* int sleep_ms = 500
sleep_ms_initial == 500
\* const int sleep_max_ms = 2 * 1000
sleep_max_ms == 2 * 1000
kEventfdLocked == 0
kEventfdUnlocked == 1

\* a backoff that doubles the delay
NextSleepMsDoubling(sleep_ms) == Min(sleep_ms + sleep_ms, sleep_max_ms)

\* sleep_ms += (sleep_ms >> 1), capped at sleep_max_ms
NextSleepMs(sleep_ms) ==
    LET grown == sleep_ms + (sleep_ms \div 2)
    IN  IF grown > sleep_max_ms THEN sleep_max_ms ELSE grown

\* a poll whose set leaves out the wake eventfd
PollReturnsWithoutWake(e) == e.event

\* poll returns: the wake eventfd holds a count, or another watched descriptor is ready
PollReturns(e) == e.wake > 0 \/ e.event

LifeInit ==
    /\ st = [ sleep_event_fd_ |-> -1,
              adb_write_event_fd_ |-> -1,
              local_agent_control_sock_ |-> -1,
              remote_agent_control_sock_ |-> -1,
              started_debugger_threads_ |-> FALSE,
              gPthread |-> FALSE,
              shutting_down_ |-> FALSE,
              control_ctx_ |-> FALSE ]
    /\ \E down \in BOOLEAN :
         env = [ runtime_shutting_down |-> down, \* Runtime::IsShuttingDownLocked()
                 threads_being_born |-> 0,       \* the runtime's count of threads in birth
                 ddm_callbacks |-> 0,            \* registrations of ddm_callback_
                 global_refs |-> 0,              \* global references to the thread peer
                 wake |-> 0,                     \* the count held by sleep_event_fd_
                 write_lock |-> 0,               \* the count held by adb_write_event_fd_
                 event |-> FALSE,                \* a watched descriptor other than the
                                                 \* wake eventfd is ready
                 events |-> 0 ]                  \* how many such events there were
    /\ obs = [ sleep_ms |-> 0, slept |-> <<>>, result |-> "none" ]
    /\ hist = [ StartThreadBirth |-> 0, EndThreadBirth |-> 0 ]
    /\ pc = [ main |-> "start", worker |-> "unborn", stopper |-> "idle" ]

\* StartDebuggerThreads, 244-252: the two eventfds
Start_CreateEventfds ==
    /\ pc.main = "start"
    /\ st' = [st EXCEPT !.sleep_event_fd_ = 3, !.adb_write_event_fd_ = 4]
    /\ env' = [env EXCEPT !.wake = kEventfdLocked, !.write_lock = kEventfdUnlocked]
    /\ pc' = [pc EXCEPT !.main = "callback"]
    /\ UNCHANGED <<obs, hist>>

\* 254-257: AddDdmCallback
Start_AddDdmCallback ==
    /\ pc.main = "callback"
    /\ env' = [env EXCEPT !.ddm_callbacks = @ + 1]
    /\ pc' = [pc EXCEPT !.main = "socketpair"]
    /\ UNCHANGED <<st, obs, hist>>

\* 258-269: the socket pair of the agent; a failure is fatal
Start_Socketpair ==
    /\ pc.main = "socketpair"
    /\ \E has_sockets \in BOOLEAN :
         IF has_sockets
         THEN /\ st' = [st EXCEPT !.local_agent_control_sock_ = 5,
                                  !.remote_agent_control_sock_ = 6]
              /\ pc' = [pc EXCEPT !.main = "birth"]
         ELSE /\ st' = st
              /\ pc' = [pc EXCEPT !.main = "aborted"]
    /\ UNCHANGED <<env, obs, hist>>

\* 274-283: under runtime_shutdown_lock_, return when the runtime shuts down, else
\* StartThreadBirth
Start_ThreadBirth ==
    /\ pc.main = "birth"
    /\ IF env.runtime_shutting_down
       THEN /\ pc' = [pc EXCEPT !.main = "returned"]
            /\ UNCHANGED <<env, hist>>
       ELSE /\ env' = [env EXCEPT !.threads_being_born = @ + 1]
            /\ hist' = [hist EXCEPT !.StartThreadBirth = @ + 1]
            /\ pc' = [pc EXCEPT !.main = "peer"]
    /\ UNCHANGED <<st, obs>>

\* 284-288: the thread peer; thr is null when it cannot be created
Start_CreatePeer ==
    /\ pc.main = "peer"
    /\ \E thr_ok \in BOOLEAN :
         IF thr_ok
         THEN /\ env' = [env EXCEPT !.global_refs = @ + 1]
              /\ pc' = [pc EXCEPT !.main = "pthread_create"]
         ELSE /\ env' = env
              /\ pc' = [pc EXCEPT !.main = "returned"]
    /\ UNCHANGED <<st, obs, hist>>

\* 291-310: pthread_create and what is undone when it fails
Start_PthreadCreate ==
    /\ pc.main = "pthread_create"
    /\ \E created \in BOOLEAN :
         IF created
         THEN /\ st' = [st EXCEPT !.started_debugger_threads_ = TRUE, !.gPthread = TRUE]
              /\ pc' = [pc EXCEPT !.main = "returned", !.worker = "attach"]
              /\ UNCHANGED <<env, hist>>
         ELSE /\ st' = [st EXCEPT !.started_debugger_threads_ = FALSE, !.gPthread = FALSE]
              /\ env' = [env EXCEPT !.global_refs = @ - 1,
                                    !.threads_being_born = @ - 1]
              /\ hist' = [hist EXCEPT !.EndThreadBirth = @ + 1]
              /\ pc' = [pc EXCEPT !.main = "returned"]
    /\ UNCHANGED obs

\* CallbackFunction, 212-234: attach to the runtime, release the peer, EndThreadBirth
CallbackFunction_Born ==
    /\ pc.worker = "attach"
    /\ env' = [env EXCEPT !.global_refs = @ - 1, !.threads_being_born = @ - 1]
    /\ hist' = [hist EXCEPT !.EndThreadBirth = @ + 1]
    /\ pc' = [pc EXCEPT !.worker = "outer"]
    /\ UNCHANGED <<st, obs>>

\* RunPollLoop, 542-547: the head of the outer loop
RunPollLoop_Outer ==
    /\ pc.worker = "outer"
    /\ IF st.shutting_down_
       THEN pc' = [pc EXCEPT !.worker = "exited"] /\ obs' = obs
       ELSE IF ~st.control_ctx_
       THEN /\ pc' = [pc EXCEPT !.worker = "setup"]
            /\ obs' = [sleep_ms |-> sleep_ms_initial, slept |-> <<>>, result |-> "none"]
       ELSE pc' = [pc EXCEPT !.worker = "inner"] /\ obs' = obs
    /\ UNCHANGED <<st, env, hist>>

\* SetupAdbConnection, 506-521: the head of the retry loop and one attempt; when it
\* returns false RunPollLoop returns (544-547)
SetupAdbConnection_Attempt ==
    /\ pc.worker = "setup"
    /\ IF st.shutting_down_
       THEN /\ obs' = [obs EXCEPT !.result = "false"]
            /\ pc' = [pc EXCEPT !.worker = "exited"]
            /\ st' = st
       ELSE \E connected \in BOOLEAN :
              IF connected
              THEN /\ st' = [st EXCEPT !.control_ctx_ = TRUE]
                   /\ obs' = [obs EXCEPT !.result = "true"]
                   /\ pc' = [pc EXCEPT !.worker = "inner"]
              ELSE /\ Len(obs.slept) < MaxAttempts
                   /\ st' = st
                   /\ obs' = obs
                   /\ pc' = [pc EXCEPT !.worker = "usleep"]
    /\ UNCHANGED <<env, hist>>

\* 523-529: the sleep after a failed attempt and the next delay
SetupAdbConnection_Sleep ==
    /\ pc.worker = "usleep"
    /\ obs' = [obs EXCEPT !.slept = Append(@, obs.sleep_ms),
                          !.sleep_ms = NextSleepMs(@)]
    /\ pc' = [pc EXCEPT !.worker = "setup"]
    /\ UNCHANGED <<st, env, hist>>

\* 548: the head of the inner loop
RunPollLoop_Inner ==
    /\ pc.worker = "inner"
    /\ pc' = [pc EXCEPT !.worker = IF ~st.shutting_down_ /\ st.control_ctx_
                                   THEN "poll" ELSE "outer"]
    /\ UNCHANGED <<st, env, obs, hist>>

\* 563-665: poll blocks until a descriptor is ready; the branch that runs then either
\* keeps the session (and the loop goes on) or drops it (break), and a failed poll
\* makes the worker return
RunPollLoop_Poll ==
    /\ pc.worker = "poll"
    /\ PollReturns(env)
    /\ \E res \in {"failed", "break", "continue"} :
         /\ res = "break" => env.event
         /\ st' = [st EXCEPT !.control_ctx_ = IF res = "break" THEN FALSE ELSE @]
         /\ env' = [env EXCEPT !.event = FALSE]
         /\ pc' = [pc EXCEPT !.worker = CASE res = "failed" -> "exited"
                                          [] res = "break" -> "outer"
                                          [] OTHER -> "inner"]
    /\ UNCHANGED <<obs, hist>>

\* StopDebuggerThreads, 922
StopDebuggerThreads_SetFlag ==
    /\ pc.stopper = "idle"
    /\ pc.main = "returned"
    /\ st' = [st EXCEPT !.shutting_down_ = TRUE]
    /\ pc' = [pc EXCEPT !.stopper = "wake"]
    /\ UNCHANGED <<env, obs, hist>>

\* StopDebuggerThreads, 923-927: the write to the wake eventfd adds to its count
StopDebuggerThreads_Wake ==
    /\ pc.stopper = "wake"
    /\ env' = [env EXCEPT !.wake = IF st.sleep_event_fd_ # -1 THEN @ + 1 ELSE @]
    /\ pc' = [pc EXCEPT !.stopper = "join"]
    /\ UNCHANGED <<st, obs, hist>>

\* StopDebugger, 120-126: pthread_join returns once the worker has returned
StopDebugger_Join ==
    /\ pc.stopper = "join"
    /\ st.gPthread => pc.worker = "exited"
    /\ st' = [st EXCEPT !.gPthread = FALSE]
    /\ pc' = [pc EXCEPT !.stopper = "stopped"]
    /\ UNCHANGED <<env, obs, hist>>

\* adbd, the agent or the debugger makes a watched descriptor ready
EventArrives ==
    /\ pc.worker \notin {"unborn", "exited"}
    /\ st.control_ctx_
    /\ ~env.event
    /\ env.events < MaxEvents
    /\ env' = [env EXCEPT !.event = TRUE, !.events = @ + 1]
    /\ UNCHANGED <<st, obs, hist, pc>>

\* the steps of the worker thread
WorkerStep ==
    \/ CallbackFunction_Born
    \/ RunPollLoop_Outer
    \/ SetupAdbConnection_Attempt
    \/ SetupAdbConnection_Sleep
    \/ RunPollLoop_Inner
    \/ RunPollLoop_Poll

LifeNext ==
    \/ Start_CreateEventfds
    \/ Start_AddDdmCallback
    \/ Start_Socketpair
    \/ Start_ThreadBirth
    \/ Start_CreatePeer
    \/ Start_PthreadCreate
    \/ WorkerStep
    \/ StopDebuggerThreads_SetFlag
    \/ StopDebuggerThreads_Wake
    \/ StopDebugger_Join
    \/ EventArrives

\* the scheduler runs the worker whenever it is not blocked
LifeSpec == LifeInit /\ [][LifeNext]_vars /\ WF_vars(WorkerStep)

(***************************************************************************)
(* The write guard and the descriptors, one step of a thread at a time:    *)
(* SendDdmPacket on the threads that publish ddm data and on the worker,   *)
(* and on the worker CloseFds, the receipt of a connection from adbd and   *)
(* SendAgentFds.  In this specification st holds adb_connection_socket_    *)
(* and performed_handshake_, env the count of adb_write_event_fd_ and the  *)
(* table of the descriptors made so far, obs the locals of the threads,    *)
(* hist counts of what was done, and pc the position of each thread.  The  *)
(* worker makes its calls in any order that the poll set allows; Spec has  *)
(* the order the poll loop makes them in.                                  *)
(***************************************************************************)
\* number of threads that publish ddm data
MaxPublishers == 2
\* number of calls of SendAgentFds during a run
MaxHandoffs == 1

Worker == 0
Publishers == 1..MaxPublishers
Threads == {Worker} \cup Publishers

\* a read of the eventfd that returns without a token when the count is 0
EventFdReadableAlways(e) == TRUE

\* ScopedEventFdLock, 140-142: read blocks while the count of the eventfd is 0
EventFdReadable(e) == e.write_lock > 0

\* a new open descriptor of the given kind is added to the table
NewFd(e, kind) ==
    [e EXCEPT !.fds = Append(@, [kind |-> kind, closes |-> 0, by |-> "none"])]

\* close(fd): the table counts every close of a descriptor and who made it
CloseFd(e, fd, by) ==
    [e EXCEPT !.fds[fd].closes = @ + 1, !.fds[fd].by = by]

GuardInit ==
    /\ st = [ adb_connection_socket_ |-> -1, performed_handshake_ |-> FALSE ]
    /\ env = [ write_lock |-> kEventfdUnlocked, fds |-> <<>> ]
    /\ obs = [ data_ |-> [t \in Threads |-> 0],   \* ScopedEventFdLock::data_ of the
                                                  \* lock a thread holds
               new_fd |-> -1,                     \* locals of the worker
               read_fd |-> -1,
               write_fd |-> -1,
               write_lock_fd |-> -1 ]
    /\ hist = [ conns |-> 0, handoffs |-> 0,
                dup |-> "none",        \* the last DupCloexec of SendAgentFds: "ok", "failed"
                sendmsg |-> "none" ]   \* the last sendmsg of SendAgentFds: "ok", "failed"
    /\ pc = [t \in Threads |-> IF t = Worker THEN "loop" ELSE "idle"]

\* ScopedEventFdLock::ScopedEventFdLock: the count is read into data_ and reset
ScopedEventFdLock_Acquire(t, from, to) ==
    /\ pc[t] = from
    /\ EventFdReadable(env)
    /\ obs' = [obs EXCEPT !.data_[t] = env.write_lock]
    /\ env' = [env EXCEPT !.write_lock = 0]
    /\ pc' = [pc EXCEPT ![t] = to]
    /\ UNCHANGED <<st, hist>>

\* ScopedEventFdLock::~ScopedEventFdLock: data_ is written back
ScopedEventFdLock_Release(t, from, to) ==
    /\ pc[t] = from
    /\ env' = [env EXCEPT !.write_lock = @ + obs.data_[t]]
    /\ obs' = [obs EXCEPT !.data_[t] = 0]
    /\ pc' = [pc EXCEPT ![t] = to]
    /\ UNCHANGED <<st, hist>>

\* DdmPublishChunk, 133-136 and 350-352: a thread of the runtime publishes ddm data
PublishDdmData(t) ==
    /\ t \in Publishers
    /\ pc[t] = "idle"
    /\ pc' = [pc EXCEPT ![t] = "send"]
    /\ UNCHANGED <<st, env, obs, hist>>

\* SendDdmPacket, 359
SendDdmPacket_Lock(t) == ScopedEventFdLock_Acquire(t, "send", "check")

\* a check whose early return leaves without running the destructor of the lock
SendDdmPacket_CheckKeepingToken(t) ==
    /\ pc[t] = "check"
    /\ pc' = [pc EXCEPT ![t] = IF st.adb_connection_socket_ = -1
                                  \/ ~st.performed_handshake_
                               THEN IF t = Worker THEN "loop" ELSE "idle"
                               ELSE "writev"]
    /\ UNCHANGED <<st, env, obs, hist>>

\* SendDdmPacket, 360-369: nothing is sent without a connection past its handshake
SendDdmPacket_Check(t) ==
    /\ pc[t] = "check"
    /\ pc' = [pc EXCEPT ![t] = IF st.adb_connection_socket_ = -1
                                  \/ ~st.performed_handshake_
                               THEN "unlock" ELSE "writev"]
    /\ UNCHANGED <<st, env, obs, hist>>

\* SendDdmPacket, 423: writev on adb_connection_socket_
SendDdmPacket_Writev(t) ==
    /\ pc[t] = "writev"
    /\ pc' = [pc EXCEPT ![t] = "unlock"]
    /\ UNCHANGED <<st, env, obs, hist>>

\* SendDdmPacket, 439: the lock goes out of scope
SendDdmPacket_Unlock(t) ==
    ScopedEventFdLock_Release(t, "unlock", IF t = Worker THEN "loop" ELSE "idle")

\* the worker is between two calls and makes the next one: CloseFds (597, 661, 700,
\* 786), the receipt of a connection, asked for only while no jdwp socket is owned
\* (556, 607-633), SendAgentFds, called only with a jdwp socket (587, 634, 653), or
\* the reply of HandleDataWithoutAgent (770), sent after the handshake
RunPollLoop_Call ==
    /\ pc[Worker] = "loop"
    /\ \E call \in {"close_lock", "receive_lock", "dup", "send"} :
         /\ call = "receive_lock"
              => st.adb_connection_socket_ = -1 /\ hist.conns < MaxConn
         /\ call = "dup"
              => st.adb_connection_socket_ # -1 /\ hist.handoffs < MaxHandoffs
         /\ call = "send"
              => st.adb_connection_socket_ # -1 /\ st.performed_handshake_
         /\ pc' = [pc EXCEPT ![Worker] = call]
    /\ UNCHANGED <<st, env, obs, hist>>

\* performed_handshake_ is set by PerformHandshake (814) and for the agent (594) and
\* cleared for the agent (603), with no lock held
RunPollLoop_SetPerformedHandshake ==
    /\ pc[Worker] = "loop"
    /\ st' = [st EXCEPT !.performed_handshake_ = ~@]
    /\ UNCHANGED <<env, obs, hist, pc>>

\* CloseFds, 320
CloseFds_Lock == ScopedEventFdLock_Acquire(Worker, "close_lock", "close_reset")

\* CloseFds, 322: adb_connection_socket_.reset() closes the descriptor it owns
CloseFds_Reset ==
    /\ pc[Worker] = "close_reset"
    /\ env' = IF st.adb_connection_socket_ # -1
              THEN CloseFd(env, st.adb_connection_socket_, "CloseFds") ELSE env
    /\ st' = [st EXCEPT !.adb_connection_socket_ = -1]
    /\ pc' = [pc EXCEPT ![Worker] = "close_unlock"]
    /\ UNCHANGED <<obs, hist>>

\* CloseFds, 323
CloseFds_Unlock == ScopedEventFdLock_Release(Worker, "close_unlock", "close_flag")

\* CloseFds, 326
CloseFds_ClearHandshake ==
    /\ pc[Worker] = "close_flag"
    /\ st' = [st EXCEPT !.performed_handshake_ = FALSE]
    /\ pc' = [pc EXCEPT ![Worker] = "loop"]
    /\ UNCHANGED <<env, obs, hist>>

\* a receipt of the connection that takes no lock
RunPollLoop_ReceiveNoLock ==
    /\ pc[Worker] = "receive_lock"
    /\ pc' = [pc EXCEPT ![Worker] = "receive"]
    /\ UNCHANGED <<st, env, obs, hist>>

\* RunPollLoop, 616
RunPollLoop_ReceiveLock == ScopedEventFdLock_Acquire(Worker, "receive_lock", "receive")

\* RunPollLoop, 617-632: adbconnection_client_receive_jdwp_fd yields a descriptor or -1;
\* the descriptor is dropped when a jdwp socket is owned and adopted otherwise
RunPollLoop_Receive ==
    /\ pc[Worker] = "receive"
    /\ \E received \in BOOLEAN :
         LET e1 == IF received THEN NewFd(env, "jdwp") ELSE env
             new_fd == IF received THEN Len(e1.fds) ELSE -1
         IN  /\ hist' = [hist EXCEPT !.conns = IF received THEN @ + 1 ELSE @]
             /\ obs' = [obs EXCEPT !.new_fd = -1]
             /\ IF new_fd = -1
                THEN env' = e1 /\ st' = st
                ELSE IF st.adb_connection_socket_ # -1
                THEN env' = CloseFd(e1, new_fd, "drop") /\ st' = st
                ELSE env' = e1 /\ st' = [st EXCEPT !.adb_connection_socket_ = new_fd]
    /\ pc' = [pc EXCEPT ![Worker] = "receive_unlock"]

\* RunPollLoop, 633
RunPollLoop_ReceiveUnlock ==
    ScopedEventFdLock_Release(Worker, "receive_unlock", "loop")

\* a handoff that logs a failed DupCloexec and returns
SendAgentFds_DupReturning ==
    /\ pc[Worker] = "dup"
    /\ \E dup_ok \in BOOLEAN :
         IF dup_ok
         THEN LET e1 == NewFd(env, "read_fd")
                  e2 == NewFd(e1, "write_fd")
                  e3 == NewFd(e2, "write_lock_fd")
              IN  /\ env' = e3
                  /\ obs' = [obs EXCEPT !.read_fd = Len(e1.fds),
                                        !.write_fd = Len(e2.fds),
                                        !.write_lock_fd = Len(e3.fds)]
                  /\ hist' = [hist EXCEPT !.handoffs = @ + 1, !.dup = "ok",
                                          !.sendmsg = "none"]
                  /\ pc' = [pc EXCEPT ![Worker] = "sendmsg"]
         ELSE /\ hist' = [hist EXCEPT !.dup = "failed", !.sendmsg = "none"]
              /\ pc' = [pc EXCEPT ![Worker] = "loop"]
              /\ UNCHANGED <<env, obs>>
    /\ UNCHANGED st

\* SendAgentFds, 466-472: the three duplicates.  A DupCloexec that fails (the table of
\* descriptors is full) fails its CHECK_NE, which ends the process and with it every
\* thread.
SendAgentFds_Dup ==
    /\ pc[Worker] = "dup"
    /\ \E dup_ok \in BOOLEAN :
         IF dup_ok
         THEN LET e1 == NewFd(env, "read_fd")
                  e2 == NewFd(e1, "write_fd")
                  e3 == NewFd(e2, "write_lock_fd")
              IN  /\ env' = e3
                  /\ obs' = [obs EXCEPT !.read_fd = Len(e1.fds),
                                        !.write_fd = Len(e2.fds),
                                        !.write_lock_fd = Len(e3.fds)]
                  /\ hist' = [hist EXCEPT !.handoffs = @ + 1, !.dup = "ok",
                                          !.sendmsg = "none"]
                  /\ pc' = [pc EXCEPT ![Worker] = "sendmsg"]
         ELSE /\ hist' = [hist EXCEPT !.dup = "failed", !.sendmsg = "none"]
              /\ pc' = [t \in Threads |-> "aborted"]
              /\ UNCHANGED <<env, obs>>
    /\ UNCHANGED st

\* SendAgentFds, 474-484: sendmsg copies the descriptors to the agent or fails
SendAgentFds_Sendmsg ==
    /\ pc[Worker] = "sendmsg"
    /\ \E ok \in BOOLEAN : hist' = [hist EXCEPT !.sendmsg = IF ok THEN "ok" ELSE "failed"]
    /\ pc' = [pc EXCEPT ![Worker] = "return"]
    /\ UNCHANGED <<st, env, obs>>

\* a return that keeps read_fd open when sendmsg failed
SendAgentFds_ReturnLeaking ==
    /\ pc[Worker] = "return"
    /\ LET e1 == CloseFd(env, obs.write_lock_fd, "SendAgentFds")
           e2 == CloseFd(e1, obs.write_fd, "SendAgentFds")
       IN  env' = IF hist.sendmsg = "failed" THEN e2
                  ELSE CloseFd(e2, obs.read_fd, "SendAgentFds")
    /\ obs' = [obs EXCEPT !.read_fd = -1, !.write_fd = -1, !.write_lock_fd = -1]
    /\ pc' = [pc EXCEPT ![Worker] = "loop"]
    /\ UNCHANGED <<st, hist>>

\* SendAgentFds, 485: the three unique_fd go out of scope, last made first
SendAgentFds_Return ==
    /\ pc[Worker] = "return"
    /\ env' = CloseFd(CloseFd(CloseFd(env, obs.write_lock_fd, "SendAgentFds"),
                              obs.write_fd, "SendAgentFds"),
                      obs.read_fd, "SendAgentFds")
    /\ obs' = [obs EXCEPT !.read_fd = -1, !.write_fd = -1, !.write_lock_fd = -1]
    /\ pc' = [pc EXCEPT ![Worker] = "loop"]
    /\ UNCHANGED <<st, hist>>

GuardNext ==
    \/ \E t \in Publishers : PublishDdmData(t)
    \/ \E t \in Threads : SendDdmPacket_Lock(t)
    \/ \E t \in Threads : SendDdmPacket_Check(t)
    \/ \E t \in Threads : SendDdmPacket_Writev(t)
    \/ \E t \in Threads : SendDdmPacket_Unlock(t)
    \/ RunPollLoop_Call
    \/ RunPollLoop_SetPerformedHandshake
    \/ CloseFds_Lock
    \/ CloseFds_Reset
    \/ CloseFds_Unlock
    \/ CloseFds_ClearHandshake
    \/ RunPollLoop_ReceiveLock
    \/ RunPollLoop_Receive
    \/ RunPollLoop_ReceiveUnlock
    \/ SendAgentFds_Dup
    \/ SendAgentFds_Sendmsg
    \/ SendAgentFds_Return

GuardSpec == GuardInit /\ [][GuardNext]_vars

(***************************************************************************)
(* The ids of the ddm packets that originate here.  next_ddm_id_ is a      *)
(* uint32_t, kept as the pair of its high bit and its low 31 bits, because *)
(* the model's integers end at 2^31 - 1.  In this specification st holds   *)
(* next_ddm_id_ and the two fields SendDdmPacket looks at, obs the last    *)
(* call of PublishDdmData, and hist the number of calls made since the     *)
(* state was constructed.  A run starts after any number of calls in       *)
(* StartCalls, so that the calls near the 2^31st are among those made.     *)
(***************************************************************************)
\* number of calls of PublishDdmData during a run
MaxCalls == 4

\* 0x7fffffff, the low 31 bits of a uint32_t
kLow31Max == 2147483647

\* the uint32_t with the given high bit and low 31 bits
U32(hi, lo) == [hi |-> hi, lo |-> lo]

\* x + 1 in uint32_t
U32Inc(x) ==
    IF x.lo = kLow31Max THEN U32((x.hi + 1) % 2, 0) ELSE U32(x.hi, x.lo + 1)

\* x | 0x80000000
U32OrSignBit(x) == U32(1, x.lo)

\* a < b in uint32_t
U32Less(a, b) == a.hi < b.hi \/ (a.hi = b.hi /\ a.lo < b.lo)

\* an id taken from the counter as it is
NextDdmIdWithoutSignBit(s) ==
    [ id |-> s.next_ddm_id_,
      st |-> [s EXCEPT !.next_ddm_id_ = U32Inc(@)] ]

\* NextDdmId(): the id returned and the state after the call
NextDdmId(s) ==
    [ id |-> U32OrSignBit(s.next_ddm_id_),
      st |-> [s EXCEPT !.next_ddm_id_ = U32Inc(@)] ]

\* the numbers of calls made before a run starts
StartCalls == {0, 1} \cup ((kLow31Max - MaxCalls - 1) .. (kLow31Max - 1))

\* the state after n < 2^31 calls of PublishDdmData: next_ddm_id_ is 1 at construction
IdInit ==
    /\ \E n \in StartCalls :
         /\ st = [ next_ddm_id_ |-> U32(0, n + 1),
                   adb_connection_socket_ |-> -1,
                   performed_handshake_ |-> FALSE ]
         /\ hist = [ calls |-> n,          \* calls made, while fewer than 2^31
                     more |-> FALSE,       \* 2^31 calls or more were made
                     ids |-> {} ]          \* the ids assigned during the run
         /\ obs = [ id |-> IF n = 0 THEN U32(0, 0) ELSE U32(1, n),
                    assigned |-> n > 0,    \* id is the id of the last call
                    sent |-> FALSE ]       \* the last call wrote its packet
    /\ env = [ run |-> 0 ]                 \* calls made during the run
    /\ pc = "idle"

\* PublishDdmData(type, data): the id is taken before SendDdmPacket looks at the
\* connection, and the packet is written only to a connection past its handshake
PublishDdmData_NextDdmId ==
    /\ env.run < MaxCalls
    /\ ~hist.more
    /\ LET r == NextDdmId(st)
       IN  /\ st' = r.st
           /\ obs' = [ id |-> r.id, assigned |-> TRUE,
                       sent |-> (st.adb_connection_socket_ # -1
                                 /\ st.performed_handshake_) ]
           /\ hist' = [ calls |-> IF hist.calls = kLow31Max THEN hist.calls ELSE hist.calls + 1,
                        more |-> hist.calls = kLow31Max,
                        ids |-> hist.ids \cup {r.id} ]
    /\ env' = [env EXCEPT !.run = @ + 1]
    /\ UNCHANGED pc

\* a connection is adopted or closed by the worker
ConnectionChanges ==
    /\ st' = [st EXCEPT !.adb_connection_socket_ = IF @ = -1 THEN 1 ELSE -1,
                        !.performed_handshake_ = FALSE]
    /\ UNCHANGED <<env, obs, hist, pc>>

\* the handshake is made on the connection
HandshakePerformed ==
    /\ st.adb_connection_socket_ # -1
    /\ ~st.performed_handshake_
    /\ st' = [st EXCEPT !.performed_handshake_ = TRUE]
    /\ UNCHANGED <<env, obs, hist, pc>>

IdNext ==
    \/ PublishDdmData_NextDdmId
    \/ ConnectionChanges
    \/ HandshakePerformed

IdSpec == IdInit /\ [][IdNext]_vars

(***************************************************************************)
(* The read of an agent message into the buffer of the poll loop            *)
(* (RunPollLoop, 576-584).  env holds the message the agent wrote, obs the  *)
(* locals of the branch, pc the position of the worker in it.               *)
(***************************************************************************)

\* the longest message the agent writes
MaxTokenLen == 256

\* char buf[257]
SizeofBuf == 257

\* the indices of buf
BufIndices == 0..(SizeofBuf - 1)

\* recv(local_agent_control_sock_, buf, sizeof(buf) - 1, 0): the bytes stored in buf
RecvLen(pending) == Min(pending, SizeofBuf - 1)

BufInit ==
    /\ st = [ agent_loaded_ |-> TRUE ]
    /\ env \in [ pending : 0..MaxTokenLen ]
    /\ obs = [ res |-> 0,             \* ssize_t res
               written |-> {},        \* the indices of buf assigned so far
               nul |-> -1 ]           \* the index the terminating '\0' was written at
    /\ hist = [ reads |-> 0 ]
    /\ pc = "recv"

\* RunPollLoop, 577-580: recv stores at most sizeof(buf) - 1 bytes from buf[0] on, or
\* fails, which is logged and the loop continued
AgentControl_Recv ==
    /\ pc = "recv"
    /\ \E recv_ok \in BOOLEAN :
         IF recv_ok
         THEN /\ obs' = [obs EXCEPT !.res = RecvLen(env.pending),
                                    !.written = 0..(RecvLen(env.pending) - 1)]
              /\ pc' = "terminate"
         ELSE /\ obs' = [obs EXCEPT !.res = -1]
              /\ pc' = "continue"
    /\ hist' = [hist EXCEPT !.reads = @ + 1]
    /\ UNCHANGED <<st, env>>

\* RunPollLoop, 582: buf[res + 1] = '\0'.  A store past the end of buf is undefined:
\* it lands in the frame of RunPollLoop and the run goes on, or the process is ended.
AgentControl_Terminate ==
    /\ pc = "terminate"
    /\ obs' = [obs EXCEPT !.nul = obs.res + 1,
                          !.written = @ \cup ({obs.res + 1} \cap BufIndices)]
    /\ IF obs.res + 1 \in BufIndices
       THEN pc' = "compare"
       ELSE pc' \in {"compare", "aborted"}
    /\ UNCHANGED <<st, env, hist>>

BufNext ==
    \/ AgentControl_Recv
    \/ AgentControl_Terminate

BufSpec == BufInit /\ [][BufNext]_vars

(***************************************************************************)
(* Properties.                                                             *)
(***************************************************************************)

\* C1 (as stated): whenever sent_agent_fds_ is set, agent_has_socket_ is set.
C1_SentImpliesHasSocket == st.sent_agent_fds_ => st.agent_has_socket_

\* C1 (amended): whenever sent_agent_fds_ is set the agent is loaded; the step that
\* sets sent_agent_fds_ is a handoff whose sendmsg succeeded and leaves
\* agent_has_socket_ as it was; and the step that sets agent_has_socket_ (the accept
\* message) clears sent_agent_fds_.
C1_SentImpliesLoaded ==
    /\ [](st.sent_agent_fds_ => st.agent_loaded_)
    /\ [][ /\ (~st.sent_agent_fds_ /\ st'.sent_agent_fds_)
              => /\ obs'.handoff # "none"
                 /\ obs'.handoffOk
                 /\ st'.agent_has_socket_ = st.agent_has_socket_
           /\ (~st.agent_has_socket_ /\ st'.agent_has_socket_)
              => ~st'.sent_agent_fds_ ]_vars

\* C1 witness: a handoff has just succeeded and the agent has not accepted yet.
C1_Witness ==
    /\ obs.handoffOk
    /\ st.sent_agent_fds_
    /\ ~st.agent_has_socket_
    /\ st.agent_loaded_

\* C2 (as stated): whenever sent_agent_fds_ is set, a jdwp socket is owned.
C2_SentImpliesSocket == st.sent_agent_fds_ => st.adb_connection_socket_ # -1

\* C3: every call of SendAgentFds, from the listen-start message, from the adoption
\* of a new connection and from the readable jdwp socket, is made while a jdwp
\* socket is owned, so the duplication of the descriptor never sees -1.
C3_HandoffOwnsSocket ==
    /\ obs.handoff # "none"
       => /\ obs.handoffFd # -1
          /\ obs.branch \in {"agent-control", "control-readable", "adb-readable"}
    /\ "SendAgentFds: read_fd != -1" \notin obs.check

\* C3 witness: the handoff was made again from the readable jdwp socket.
C3_Witness ==
    /\ obs.branch = "adb-readable"
    /\ obs.handoff = kPerformHandshakeMessage
    /\ obs.handoffFd # -1

\* C4: while there is no session with adbd no jdwp socket is owned, so the session
\* made by the next successful SetupAdbConnection starts with the socket at -1.
C4_NoSessionNoSocket ==
    /\ ~st.control_ctx_ => st.adb_connection_socket_ = -1
    /\ obs.branch = "setup" => st.adb_connection_socket_ = -1

\* C4 witness: the session was dropped after a debugger had been connected.
C4_Witness ==
    /\ ~st.control_ctx_
    /\ obs.branch \in {"control-hangup", "control-readable"}
    /\ env.next_fd > 1

\* C5 (as stated): whenever no jdwp socket is owned, performed_handshake_ is false.
C5_NoSocketNoHandshake == st.adb_connection_socket_ = -1 => ~st.performed_handshake_

\* the worker serves the readable jdwp socket in this step, with no agent loaded
LocalStep == ~st.agent_loaded_ /\ obs'.branch = "adb-readable"

\* the fixed handshake string heads the unread bytes of the jdwp socket
HandshakeArrived ==
    /\ Len(env.rcvbuf) >= 14
    /\ SubSeq(env.rcvbuf, 1, 14) = kJdwpHandshake

\* C6 (as stated): in the handshake phase, when the handshake string heads at least
\* 14 unread bytes, the worker takes exactly these 14 bytes, writes the same 14 bytes
\* back, sets performed_handshake_ and keeps the socket.
C6_HandshakeAccepted ==
    [][ (LocalStep /\ ~st.performed_handshake_ /\ HandshakeArrived)
        => /\ env'.rcvbuf = SubSeq(env.rcvbuf, 15, Len(env.rcvbuf))
           /\ obs'.send = SubSeq(env.rcvbuf, 1, 14)
           /\ obs'.nsend = 1
           /\ st'.performed_handshake_
           /\ st'.adb_connection_socket_ = st.adb_connection_socket_
           /\ st'.adb_connection_socket_ # -1 ]_vars

\* C6 (amended): in that case the worker takes exactly these 14 bytes and hands the
\* same 14 bytes to one send; when send writes all of them it sets
\* performed_handshake_ and keeps the socket, and when send fails or is short it
\* releases the socket and leaves performed_handshake_ false.  With
\* performed_handshake_ set, the next readable event peeks a packet header.
C6_HandshakeAcceptedIfSent ==
    [][ /\ (LocalStep /\ ~st.performed_handshake_ /\ HandshakeArrived)
           => /\ obs'.consumed = 14
              /\ obs'.send = SubSeq(env.rcvbuf, 1, 14)
              /\ obs'.nsend = 1
              /\ obs'.sendRes \in {"full", "short"}
              /\ obs'.sendRes = "full"
                 => /\ env'.rcvbuf = SubSeq(env.rcvbuf, 15, Len(env.rcvbuf))
                    /\ st'.performed_handshake_
                    /\ st'.adb_connection_socket_ = st.adb_connection_socket_
                    /\ st'.adb_connection_socket_ # -1
              /\ obs'.sendRes = "short"
                 => /\ st'.adb_connection_socket_ = -1
                    /\ ~st'.performed_handshake_
        /\ (LocalStep /\ st.performed_handshake_) => obs'.peeked ]_vars

\* C6 witness: the handshake was answered in full and bytes that followed it are
\* still unread.
C6_Witness ==
    /\ obs.branch = "adb-readable"
    /\ obs.send = kJdwpHandshake
    /\ obs.sendRes = "full"
    /\ obs.consumed = 14
    /\ st.performed_handshake_
    /\ st.adb_connection_socket_ # -1
    /\ env.rcvbuf # <<>>

\* C7: in the handshake phase, when fewer than 14 bytes are unread or the first 14
\* differ from the handshake string, the worker writes nothing, releases the socket
\* and leaves performed_handshake_ false.
C7_HandshakeRejected ==
    [][ (LocalStep /\ ~st.performed_handshake_ /\ ~HandshakeArrived)
        => /\ obs'.nsend = 0
           /\ obs'.send = <<>>
           /\ obs'.closed
           /\ st'.adb_connection_socket_ = -1
           /\ ~st'.performed_handshake_ ]_vars

\* C7 witness: 14 bytes that are not the handshake string were read and the socket
\* was released without a reply.
C7_Witness ==
    /\ obs.branch = "adb-readable"
    /\ obs.consumed = 14
    /\ obs.nsend = 0
    /\ obs.closed
    /\ st.adb_connection_socket_ = -1

\* a recognized ddm packet with well-formed inner framing is unread in full
WellFormedPacketArrived ==
    /\ Len(env.rcvbuf) >= 11
    /\ env.rcvbuf[10] = 199
    /\ env.rcvbuf[11] = 1
    /\ Ntohl(env.rcvbuf, 0) >= 11 + 8
    /\ Len(env.rcvbuf) >= Ntohl(env.rcvbuf, 0)
    /\ Ntohl(env.rcvbuf, 15) <= Ntohl(env.rcvbuf, 0) - (11 + 8)

\* C8: in the packet phase with no agent loaded, a well-formed recognized packet that
\* is unread in full, with id I, type T and payload P, is given to the ddm callback
\* as (T, P); when the callback returns (true, T', P') exactly one packet is written,
\* with total length 11 + 8 + len(P'), id I, the reply flags byte, type T', length
\* len(P') and payload P'; when it returns false nothing is written.
C8_LocalPacketRoundTrip ==
    [][ (LocalStep /\ st.performed_handshake_ /\ WellFormedPacketArrived)
        => LET id_bytes == SubSeq(env.rcvbuf, 5, 8)
               T == Ntohl(env.rcvbuf, 11)
               P == SubSeq(env.rcvbuf, 20, 19 + Ntohl(env.rcvbuf, 15))
               cb == obs'.cb
               out == obs'.send
           IN  /\ cb.called
               /\ cb.type = T
               /\ cb.data = P
               /\ obs'.consumed = Ntohl(env.rcvbuf, 0)
               /\ IF cb.handled
                  THEN /\ obs'.nsend = 1
                       /\ Len(out) = 11 + 8 + Len(cb.reply)
                       /\ Ntohl(out, 0) = 11 + 8 + Len(cb.reply)
                       /\ SubSeq(out, 5, 8) = id_bytes
                       /\ out[9] = DdmPacketType_kReply
                       /\ Ntohl(out, 11) = cb.reply_type
                       /\ Ntohl(out, 15) = Len(cb.reply)
                       /\ SubSeq(out, 20, Len(out)) = cb.reply
                  ELSE /\ obs'.nsend = 0
                       /\ out = <<>> ]_vars

\* C8 witness: a packet with a four-byte id and a payload was answered with a reply
\* that carries data.
C8_Witness ==
    /\ obs.branch = "adb-readable"
    /\ obs.cb.called
    /\ obs.cb.handled
    /\ obs.cb.id = 16909060
    /\ obs.cb.data = <<5, 6>>
    /\ obs.cb.reply = <<1, 2, 3>>
    /\ obs.nsend = 1
    /\ SubSeq(obs.send, 5, 8) = <<1, 2, 3, 4>>

\* C9 (as stated): once AttachJdwpAgent has run for a connection, no step peeks a
\* header, takes bytes off the jdwp socket, calls the ddm callback or writes a reply
\* on that connection, whatever the attach returned.
C9_NoLocalHandlingAfterEscalation ==
    [][ hist.escalated
        => /\ ~obs'.peeked
           /\ obs'.consumed = 0
           /\ ~obs'.cb.called
           /\ obs'.nsend = 0 ]_vars

\* C10: the notifications to the ddm code alternate active, inactive, active, ...;
\* NotifyDdms is never called with the value notified_ddm_active_ already has; and a
\* CloseFds that runs with notified_ddm_active_ set and no agent loaded sends
\* exactly one inactive notification, which is sent in no other case.
C10_NotifyAlternates ==
    [][ /\ Len(obs'.notify) <= 1
        /\ obs'.dcheck \cap {"NotifyDdms: notified_ddm_active_ != active"} = {}
        /\ obs'.notify # <<>>
           => /\ obs'.notify[1] # st.notified_ddm_active_
              /\ obs'.notify[1] => hist.last_notify \in {"none", "inactive"}
              /\ ~obs'.notify[1] => hist.last_notify = "active"
        /\ (obs'.closed /\ ~st.agent_loaded_ /\ st.notified_ddm_active_)
           <=> obs'.notify = <<FALSE>> ]_vars

\* C10 witness: a socket that had been announced active was closed and announced
\* inactive.
C10_Witness ==
    /\ obs.closed
    /\ obs.notify = <<FALSE>>
    /\ hist.last_notify = "inactive"
    /\ ~st.notified_ddm_active_

\* C11: a handshake that succeeds leaves notified_ddm_active_ false and announces
\* nothing; notified_ddm_active_ becomes true only in a step of the local handler, with
\* no agent loaded, that takes a recognized ddm packet with well-formed inner framing
\* off the jdwp socket, which stays the owned connection.
C11_NotifyOnlyOnHandledPacket ==
    [][ /\ (LocalStep /\ ~st.performed_handshake_ /\ st'.performed_handshake_)
           => /\ ~st.notified_ddm_active_
              /\ ~st'.notified_ddm_active_
              /\ obs'.notify = <<>>
        /\ (~st.notified_ddm_active_ /\ st'.notified_ddm_active_)
           => /\ LocalStep
              /\ st.performed_handshake_
              /\ WellFormedPacketArrived
              /\ obs'.consumed = Ntohl(env.rcvbuf, 0)
              /\ obs'.notify = <<TRUE>>
              /\ st.adb_connection_socket_ # -1
              /\ st'.adb_connection_socket_ = st.adb_connection_socket_ ]_vars

\* C11 witness: the first packet after the handshake was handled and the connection
\* was announced.
C11_Witness ==
    /\ obs.branch = "adb-readable"
    /\ obs.notify = <<TRUE>>
    /\ obs.cb.called
    /\ obs.consumed >= 19
    /\ st.notified_ddm_active_
    /\ st.performed_handshake_

\* C16 (as stated): every handoff sends skip-handshake if and only if the peer of the
\* current connection was already answered a handshake, and perform-handshake
\* otherwise; a connection adopted in the same step is new.
C16_TokenTellsHandshake ==
    [][ obs'.handoff # "none"
        => LET done == IF obs'.branch = "control-readable" THEN FALSE
                       ELSE hist.handshook
           IN  obs'.handoff = IF done THEN kSkipHandshakeMessage
                              ELSE kPerformHandshakeMessage ]_vars

MalformedHandshake == ~st.performed_handshake_ /\ ~HandshakeArrived

TruncatedHeader ==
    st.performed_handshake_ /\ Len(env.rcvbuf) > 0 /\ Len(env.rcvbuf) < 11

UnrecognizedCommand ==
    /\ st.performed_handshake_
    /\ Len(env.rcvbuf) >= 11
    /\ env.rcvbuf[10] # 199 \/ env.rcvbuf[11] # 1

\* C20 (as stated): on each of these the worker releases the jdwp socket and drops the
\* session with adbd, and goes on running.
C20_ViolationClosesAndReconnects ==
    [][ (LocalStep /\ (MalformedHandshake \/ TruncatedHeader \/ UnrecognizedCommand))
        => /\ st'.adb_connection_socket_ = -1
           /\ ~st'.control_ctx_
           /\ ~st.shutting_down_ => pc' = "connect" ]_vars

\* C20 (amended): on a malformed handshake the worker releases the jdwp socket and
\* keeps the session with adbd; on a header cut short or a command that is not a ddm
\* chunk it keeps the socket, takes nothing off it and attaches the agent; in each
\* case it stays in the poll loop of the same session.
C20_ViolationHandling ==
    [][ /\ (LocalStep /\ MalformedHandshake)
           => /\ obs'.closed
              /\ st'.adb_connection_socket_ = -1
              /\ obs'.attach = "none"
        /\ (LocalStep /\ (TruncatedHeader \/ UnrecognizedCommand))
           => /\ obs'.attach \in {"ok", "fail"}
              /\ ~obs'.closed
              /\ obs'.consumed = 0
              /\ st'.adb_connection_socket_ = st.adb_connection_socket_
              /\ st'.adb_connection_socket_ # -1
        /\ (LocalStep /\ (MalformedHandshake \/ TruncatedHeader \/ UnrecognizedCommand))
           => /\ st'.control_ctx_
              /\ ~st.shutting_down_ => pc' = "poll" ]_vars

\* C20 witness: a command that is not a ddm chunk is unread in full, the agent was
\* attached for it, and the worker is back in the poll loop with socket and session.
C20_Witness ==
    /\ obs.branch = "adb-readable"
    /\ obs.attach = "ok"
    /\ Len(env.rcvbuf) >= 11
    /\ env.rcvbuf[10] = 1
    /\ st.adb_connection_socket_ # -1
    /\ st.control_ctx_
    /\ pc = "poll"

\* C14: once Stop has set shutting_down_ and written to the wake eventfd, a worker that
\* was started returns, wherever it was: blocked in poll, about to call poll, or in
\* the retry loop of SetupAdbConnection.  The count of the wake eventfd stays, so a
\* poll entered after the write returns at once.
C14_StopEndsWorker ==
    (st.shutting_down_ /\ pc.stopper \in {"join", "stopped"} /\ pc.worker # "unborn")
        ~> (pc.worker = "exited")

\* C14 witness: the worker returned from the poll loop of a live session after Stop
\* had written to the wake eventfd.
C14_Witness ==
    /\ pc.worker = "exited"
    /\ pc.stopper = "stopped"
    /\ st.shutting_down_
    /\ st.control_ctx_
    /\ env.wake > 0

\* the delays the claim gives: 500, 1000, 2000, 2000, ...
DoublingDelay(i) == IF i = 1 THEN 500 ELSE IF i = 2 THEN 1000 ELSE 2000

\* the delays of a growth by half: 500, 750, 1125, 1687, 2000, 2000, ...
GrowthByHalfDelay(i) ==
    IF i = 1 THEN 500 ELSE IF i = 2 THEN 750 ELSE IF i = 3 THEN 1125
    ELSE IF i = 4 THEN 1687 ELSE 2000

\* C15 (as stated): the i-th sleep of a SetupAdbConnection call lasts 500, 1000, 2000,
\* 2000, ... ms, and the call returns false only when shutting_down_ is set.
C15_BackoffDoubles ==
    /\ \A i \in 1..Len(obs.slept) : obs.slept[i] = DoublingDelay(i)
    /\ obs.result = "false" => st.shutting_down_

\* C15 (amended): the i-th sleep lasts 500, 750, 1125, 1687, 2000, 2000, ... ms (the
\* delay grows by half, rounded down, up to 2000), and the call returns false only
\* when shutting_down_ is set.
C15_BackoffGrowsByHalf ==
    /\ \A i \in 1..Len(obs.slept) : obs.slept[i] = GrowthByHalfDelay(i)
    /\ obs.result = "false" => st.shutting_down_

\* C15 witness: the sixth attempt failed too, the delay having reached its cap, and
\* the retry loop is still going.
C15_Witness ==
    /\ Len(obs.slept) >= 6
    /\ obs.slept[5] = 2000
    /\ obs.slept[6] = 2000
    /\ pc.worker = "setup"
    /\ ~st.shutting_down_

\* C18 (as stated): when StartDebuggerThreads has entered the thread-birth barrier and
\* returns without a worker thread, the barrier was left by exactly one
\* EndThreadBirth, and the eventfds, the agent's socket pair and the registration of
\* the ddm callback are undone.
C18_FailedStartReversed ==
    (pc.main = "returned" /\ pc.worker = "unborn" /\ hist.StartThreadBirth > 0)
    => /\ hist.EndThreadBirth = hist.StartThreadBirth
       /\ env.threads_being_born = 0
       /\ st.sleep_event_fd_ = -1
       /\ st.adb_write_event_fd_ = -1
       /\ st.local_agent_control_sock_ = -1
       /\ st.remote_agent_control_sock_ = -1
       /\ env.ddm_callbacks = 0

\* the thread is inside a section guarded by adb_write_event_fd_
InWriteGuard(t) ==
    \/ pc[t] \in {"check", "writev", "unlock"}
    \/ t = Worker /\ pc[t] \in {"close_reset", "close_unlock", "receive", "receive_unlock"}

\* the worker is inside SendAgentFds
InHandoff == pc[Worker] \in {"dup", "sendmsg", "return"}

\* C12: a thread that publishes a ddm packet checks adb_connection_socket_ and writes to
\* it holding the token of the write guard; CloseFds resets adb_connection_socket_
\* holding the same token; no two threads are inside guarded sections at once; and
\* the socket written to is owned and open at the time of the write.
C12_PublishExcludesClose ==
    /\ \A t \in Threads :
         InWriteGuard(t) => obs.data_[t] = 1 /\ env.write_lock = 0
    /\ Cardinality({t \in Threads : InWriteGuard(t)}) <= 1
    /\ \A t \in Threads :
         pc[t] = "writev"
         => /\ st.adb_connection_socket_ # -1
            /\ env.fds[st.adb_connection_socket_].closes = 0
            /\ pc[Worker] \notin {"close_reset", "close_unlock"}

\* C12 witness: a publisher is about to write to the socket while the worker waits
\* for the token in CloseFds.
C12_Witness ==
    /\ \E t \in Publishers : pc[t] = "writev"
    /\ pc[Worker] = "close_lock"
    /\ st.adb_connection_socket_ # -1

\* C13 (as stated): no publisher writes to the jdwp socket while the worker is inside
\* SendAgentFds.
C13_PublishExcludesHandoff ==
    \A t \in Publishers : pc[t] = "writev" => ~InHandoff

\* C13 (amended): no publisher writes to the jdwp socket while the worker receives and
\* adopts a connection, which it does holding the token; inside SendAgentFds the
\* worker holds no token, and the socket it duplicates is owned and open throughout.
C13_PublishExcludesAdoption ==
    /\ \A t \in Publishers :
         pc[t] = "writev" => pc[Worker] \notin {"receive", "receive_unlock"}
    /\ pc[Worker] \in {"receive", "receive_unlock"}
         => obs.data_[Worker] = 1 /\ env.write_lock = 0
    /\ InHandoff
         => /\ obs.data_[Worker] = 0
            /\ st.adb_connection_socket_ # -1
            /\ env.fds[st.adb_connection_socket_].closes = 0

\* C13 witness: a publisher is about to write to the socket while the worker is about
\* to send its duplicates to the agent.
C13_Witness ==
    /\ \E t \in Publishers : pc[t] = "writev"
    /\ pc[Worker] = "sendmsg"
    /\ obs.read_fd # -1

\* the descriptors of one kind
FdsOfKind(kind) == {fd \in DOMAIN env.fds : env.fds[fd].kind = kind}

\* the duplicates made by SendAgentFds
Duplicates == FdsOfKind("read_fd") \cup FdsOfKind("write_fd") \cup FdsOfKind("write_lock_fd")

C22_IdsIncreaseWithHighBit ==
    [][ env'.run # env.run
        => /\ obs'.id.hi = 1
           /\ ~hist'.more
                => /\ obs'.id = U32(1, hist'.calls)
                   /\ obs.assigned => U32Less(obs.id, obs'.id)
                   /\ obs'.id \notin hist.ids
                   /\ hist'.calls = hist.calls + 1 ]_vars

\* C22 witness: the call number 2^31 - 1 was made with no connection and was given the
\* id 0xffffffff, after another call of the run.
C22_Witness ==
    /\ hist.calls = kLow31Max
    /\ ~hist.more
    /\ obs.assigned /\ ~obs.sent
    /\ obs.id = U32(1, kLow31Max)
    /\ Cardinality(hist.ids) >= 2

\* C23: a branch of the poll loop runs only for a source that was in the set given to
\* poll: the agent control socket only if agent_loaded_, adbd's control socket only if
\* adb_connection_socket_ is -1, the jdwp socket only if neither agent_has_socket_ nor
\* sent_agent_fds_ (and there is a jdwp socket); a wakeup alone changes no field.
C23_OnlyWatchedSourcesServiced ==
    [][ /\ obs'.branch \in {"agent-control", "agent-control-retry"}
             => st.agent_loaded_
        /\ obs'.branch \in {"control-readable", "control-hangup"}
             => st.control_ctx_ /\ st.adb_connection_socket_ = -1
        /\ obs'.branch \in {"adb-readable", "adb-hangup"}
             => /\ ~st.agent_has_socket_
                /\ ~st.sent_agent_fds_
                /\ st.adb_connection_socket_ # -1
        /\ obs'.branch = "woke-up" => st' = st ]_vars

\* C23 witness: with the agent loaded and listening, data on the jdwp socket made the
\* worker send the descriptors, after which the jdwp socket is no longer watched.
C23_Witness ==
    /\ obs.branch = "adb-readable"
    /\ st.agent_loaded_ /\ st.agent_listening_
    /\ obs.handoffOk
    /\ st.sent_agent_fds_
    /\ ~WatchAdbSocket(st)
    /\ WatchAgentControl(st)
    /\ ~WatchControlSock(st)

AgentToken(msg) == obs'.branch = "agent-control" /\ obs'.msg = msg

\* C25: on listen-start agent_listening_ becomes true; with a jdwp socket SendAgentFds is
\* called at once for that socket, with perform-handshake iff performed_handshake_ is
\* false, and sets sent_agent_fds_ if sendmsg succeeds; without a jdwp socket
\* SendAgentFds is not called and no other field changes.
C25_ListenStart ==
    [][ AgentToken(kListenStartMessage)
        => /\ st'.agent_listening_
           /\ ~obs'.closed
           /\ IF st.adb_connection_socket_ # -1
              THEN /\ obs'.handoff = IF st.performed_handshake_
                                     THEN kSkipHandshakeMessage
                                     ELSE kPerformHandshakeMessage
                   /\ obs'.handoffFd = st.adb_connection_socket_
                   /\ st' = [st EXCEPT !.agent_listening_ = TRUE,
                                       !.sent_agent_fds_ = @ \/ obs'.handoffOk]
              ELSE /\ obs'.handoff = "none"
                   /\ st' = [st EXCEPT !.agent_listening_ = TRUE] ]_vars

\* C25 witness: listen-start came for a connection whose handshake was made here, and
\* the descriptors were sent with skip-handshake.
C25_Witness ==
    /\ obs.branch = "agent-control"
    /\ obs.msg = kListenStartMessage
    /\ obs.handoff = kSkipHandshakeMessage
    /\ obs.handoffOk
    /\ st.agent_listening_ /\ st.sent_agent_fds_ /\ st.performed_handshake_

\* C26: on accept agent_has_socket_ becomes true and sent_agent_fds_ and
\* performed_handshake_ false, and no other field changes; and while agent_has_socket_
\* is true no branch of the jdwp socket runs, and only a close of the agent makes it
\* false again.
C26_Accept ==
    [][ /\ AgentToken(kAcceptMessage)
             => /\ st' = [st EXCEPT !.agent_has_socket_ = TRUE,
                                    !.sent_agent_fds_ = FALSE,
                                    !.performed_handshake_ = FALSE]
                /\ ~obs'.closed /\ obs'.handoff = "none" /\ obs'.notify = <<>>
                /\ env'.rcvbuf = env.rcvbuf /\ env'.daemon_ev = env.daemon_ev
        /\ st.agent_has_socket_
             => /\ obs'.branch \notin {"adb-readable", "adb-hangup"}
                /\ ~WatchAdbSocket(st)
                /\ ~st'.agent_has_socket_ => AgentToken(kCloseMessage) ]_vars

\* C26 witness: the agent accepted a connection on which the handshake had been made
\* here; data of the debugger is pending on the jdwp socket, which is not watched.
C26_Witness ==
    /\ obs.branch = "agent-control"
    /\ obs.msg = kAcceptMessage
    /\ st.agent_has_socket_ /\ ~st.sent_agent_fds_ /\ ~st.performed_handshake_
    /\ hist.handshook
    /\ st.adb_connection_socket_ # -1
    /\ env.rcvbuf # <<>>
    /\ ~WatchAdbSocket(st)

\* C27: on close CloseFds runs: adb_connection_socket_ becomes -1 and
\* performed_handshake_ false; agent_has_socket_ becomes false; nothing else changes and
\* the ddm code is told nothing, the agent being loaded; after the step adbd's control
\* socket is in the poll set again, and a connection that adbd has queued makes it
\* readable.
C27_Close ==
    [][ AgentToken(kCloseMessage)
        => /\ obs'.closed
           /\ st' = [st EXCEPT !.adb_connection_socket_ = -1,
                               !.performed_handshake_ = FALSE,
                               !.agent_has_socket_ = FALSE]
           /\ obs'.notify = <<>> /\ obs'.handoff = "none"
           /\ WatchControlSock(st')
           /\ env'.daemon_ev = env.daemon_ev
           /\ (st.control_ctx_ /\ env.daemon_ev \in {"fd", "second"})
                => ControlSockPollIn(FALSE)' ]_vars

\* C27 witness: the agent closed the connection it had accepted, and the next
\* connection, which adbd queued meanwhile, now shows on the watched control socket.
C27_Witness ==
    /\ obs.branch = "agent-control"
    /\ obs.msg = kCloseMessage
    /\ obs.closed
    /\ st.adb_connection_socket_ = -1
    /\ ~st.agent_has_socket_ /\ ~st.performed_handshake_
    /\ env.next_fd > 1
    /\ pc = "poll"
    /\ env.daemon_ev = "second"
    /\ ControlSockPollIn(FALSE)

\* the step left the sockets and their queues as they were, but for the message read
AgentTokenOnlyRead ==
    /\ ~obs'.closed /\ obs'.handoff = "none" /\ obs'.notify = <<>> /\ obs'.nsend = 0
    /\ env'.rcvbuf = env.rcvbuf
    /\ env'.peer_closed = env.peer_closed
    /\ env'.daemon_ev = env.daemon_ev
    /\ env'.next_fd = env.next_fd
    /\ env'.agent_msgs = env.agent_msgs - 1

\* C28: handshake-complete sets performed_handshake_ if agent_has_socket_ is true and
\* changes no field otherwise; listen-end sets agent_listening_ to false and changes
\* no other field; a message that is none of the five changes no field; none of the
\* three closes or sends a descriptor.
C28_OtherTokens ==
    [][ /\ AgentToken(kHandshakeCompleteMessage)
             => /\ st' = IF st.agent_has_socket_
                         THEN [st EXCEPT !.performed_handshake_ = TRUE]
                         ELSE st
                /\ AgentTokenOnlyRead
        /\ AgentToken(kListenEndMessage)
             => /\ st' = [st EXCEPT !.agent_listening_ = FALSE]
                /\ AgentTokenOnlyRead
        /\ (obs'.branch = "agent-control"
            /\ obs'.msg \notin {kListenStartMessage, kListenEndMessage, kCloseMessage,
                                kHandshakeCompleteMessage, kAcceptMessage})
             => /\ st' = st
                /\ AgentTokenOnlyRead ]_vars

\* C28 witness: handshake-complete came while the agent did not have the socket, and
\* performed_handshake_ stayed false.
C28_Witness ==
    /\ obs.branch = "agent-control"
    /\ obs.msg = kHandshakeCompleteMessage
    /\ ~st.agent_has_socket_
    /\ ~st.performed_handshake_
    /\ st.adb_connection_socket_ # -1
    /\ st.agent_listening_

\* C29: when adbd's control socket is readable in a debuggable process (no jdwp socket
\* is owned then), either the receipt fails, control_ctx_ is reset and
\* adb_connection_socket_ stays -1, or the connection received becomes
\* adb_connection_socket_; in the second case SendAgentFds is called in the same step,
\* with perform-handshake, iff agent_loaded_ and agent_listening_, and no other field
\* changes but sent_agent_fds_ when sendmsg succeeds.
C29_AdoptConnection ==
    [][ (obs'.branch = "control-readable" /\ env.debuggable)
        => /\ st.adb_connection_socket_ = -1
           /\ ~obs'.dropped /\ ~obs'.closed
           /\ \/ /\ st' = [st EXCEPT !.control_ctx_ = FALSE]
                 /\ obs'.handoff = "none"
                 /\ env'.next_fd = env.next_fd
              \/ /\ env.daemon_ev \in {"fd", "second"}
                 /\ env'.daemon_ev = "none"
                 /\ env'.next_fd = env.next_fd + 1
                 /\ st'.adb_connection_socket_ = env.next_fd
                 /\ IF st.agent_loaded_ /\ st.agent_listening_
                    THEN /\ obs'.handoff = kPerformHandshakeMessage
                         /\ obs'.handoffFd = env.next_fd
                         /\ st' = [st EXCEPT !.adb_connection_socket_ = env.next_fd,
                                             !.sent_agent_fds_ = @ \/ obs'.handoffOk]
                    ELSE /\ obs'.handoff = "none"
                         /\ st' = [st EXCEPT !.adb_connection_socket_ = env.next_fd] ]_vars

\* C29 witness: with the agent loaded and listening a second connection was adopted and
\* its descriptors were sent with perform-handshake in the same step.
C29_Witness ==
    /\ obs.branch = "control-readable"
    /\ obs.handoff = kPerformHandshakeMessage
    /\ obs.handoffOk
    /\ obs.handoffFd = st.adb_connection_socket_
    /\ st.adb_connection_socket_ = 2
    /\ st.agent_loaded_ /\ st.agent_listening_ /\ st.sent_agent_fds_

\* C30 (as stated): whenever the branch for a hangup of adbd's control socket runs,
\* agent_has_socket_ is false; the branch resets control_ctx_, changes no other field,
\* and the worker goes back to SetupAdbConnection unless it is shutting down.
C30_HangupWithoutAgentSocket ==
    [][ obs'.branch = "control-hangup"
        => /\ ~st.agent_has_socket_
           /\ obs'.dcheck = {}
           /\ st' = [st EXCEPT !.control_ctx_ = FALSE]
           /\ pc' = IF st.shutting_down_ THEN "done" ELSE "connect" ]_vars

\* C31 (as stated): the branch for a hangup of the jdwp socket runs only while
\* agent_loaded_ is false, and it releases the socket by CloseFds.
C31_HangupOnlyBeforeAgent ==
    [][ obs'.branch = "adb-hangup"
        => /\ ~st.agent_loaded_
           /\ obs'.closed
           /\ st'.adb_connection_socket_ = -1 ]_vars

\* C31 (amended): the branch for a hangup of the jdwp socket runs only while neither
\* agent_has_socket_ nor sent_agent_fds_ is true, which includes states with the agent
\* loaded; it releases the socket by CloseFds, which clears performed_handshake_ and
\* tells the ddm code only if the agent is not loaded and the connection was announced.
C31_HangupWhileSocketIsOurs ==
    [][ obs'.branch = "adb-hangup"
        => /\ ~st.agent_has_socket_ /\ ~st.sent_agent_fds_
           /\ st.adb_connection_socket_ # -1
           /\ env.peer_closed
           /\ obs'.closed /\ obs'.dcheck = {} /\ obs'.handoff = "none"
           /\ st' = [st EXCEPT !.adb_connection_socket_ = -1,
                               !.performed_handshake_ = FALSE,
                               !.notified_ddm_active_ =
                                   IF st.agent_loaded_ THEN @ ELSE FALSE]
           /\ obs'.notify = IF ~st.agent_loaded_ /\ st.notified_ddm_active_
                            THEN <<FALSE>> ELSE <<>> ]_vars

\* C31 witness: the debugger hung up while the agent was loaded and listening but had
\* not been sent the descriptors, and the socket was released.
C31_Witness ==
    /\ obs.branch = "adb-hangup"
    /\ obs.closed
    /\ st.agent_loaded_ /\ st.agent_listening_
    /\ st.adb_connection_socket_ = -1

\* the packet phase of the local handler runs on the unread bytes of the jdwp socket
PacketPhaseStep == LocalStep /\ st.performed_handshake_

\* the unread bytes start with a whole header of a ddm chunk command
RecognizedHeader ==
    /\ Len(env.rcvbuf) >= kPacketHeaderLen
    /\ env.rcvbuf[kPacketCommandSetOff + 1] = kDdmCommandSet
    /\ env.rcvbuf[kPacketCommandOff + 1] = kDdmChunkCommand
    /\ Ntohl(env.rcvbuf, kPacketSizeOff) >= kPacketHeaderLen

\* C32: in the packet phase the handler attaches the agent and takes no byte off the
\* jdwp socket when fewer than 11 bytes (and at least one) are unread, when the
\* command set and command are not those of a ddm chunk, when the length in the header
\* is below 11, or when fewer bytes are unread than that length; it takes bytes off
\* the socket only for a recognized packet that is unread in full, and then takes
\* exactly that packet.
C32_EscalationConsumesNothing ==
    [][ PacketPhaseStep
        => /\ ( /\ env.rcvbuf # <<>>
                /\ \/ ~RecognizedHeader
                   \/ Len(env.rcvbuf) < Ntohl(env.rcvbuf, kPacketSizeOff) )
              => /\ obs'.attach \in {"ok", "fail"}
                 /\ obs'.consumed = 0
                 /\ env'.rcvbuf = env.rcvbuf
                 /\ ~obs'.closed /\ ~obs'.cb.called /\ obs'.nsend = 0
                 /\ st'.adb_connection_socket_ = st.adb_connection_socket_
           /\ (obs'.consumed > 0 \/ env'.rcvbuf # env.rcvbuf)
              => /\ RecognizedHeader
                 /\ Len(env.rcvbuf) >= Ntohl(env.rcvbuf, kPacketSizeOff)
                 /\ obs'.consumed = Ntohl(env.rcvbuf, kPacketSizeOff)
                 /\ env'.rcvbuf = Drop(env.rcvbuf, Ntohl(env.rcvbuf, kPacketSizeOff))
                 /\ obs'.attach = "none" ]_vars

\* C32 witness: the header of a ddm chunk command is unread but the packet is not, the
\* agent was attached and every byte is still on the socket.
C32_Witness ==
    /\ obs.branch = "adb-readable"
    /\ obs.attach = "ok"
    /\ obs.peeked
    /\ obs.consumed = 0
    /\ RecognizedHeader
    /\ Len(env.rcvbuf) < Ntohl(env.rcvbuf, kPacketSizeOff)
    /\ st.agent_loaded_

\* the unread bytes start with a whole ddm chunk command whose chunk is cut short: fewer
\* than 8 bytes follow the header, or the length of the chunk exceeds what follows
MalformedChunkArrived ==
    /\ RecognizedHeader
    /\ Len(env.rcvbuf) >= Ntohl(env.rcvbuf, kPacketSizeOff)
    /\ \/ Ntohl(env.rcvbuf, kPacketSizeOff) - kPacketHeaderLen < 8
       \/ Ntohl(env.rcvbuf, kPacketHeaderLen + 4)
            > Ntohl(env.rcvbuf, kPacketSizeOff) - kPacketHeaderLen - 8

\* C33: in the packet phase such a packet is taken off the socket in full and nothing
\* else happens: Dbg::DdmHandleChunk is not called, the ddm code is told nothing,
\* nothing is written, the agent is not attached, the socket is kept and no field
\* changes.
C33_MalformedChunkDropped ==
    [][ (PacketPhaseStep /\ MalformedChunkArrived)
        => /\ obs'.consumed = Ntohl(env.rcvbuf, kPacketSizeOff)
           /\ env'.rcvbuf = Drop(env.rcvbuf, Ntohl(env.rcvbuf, kPacketSizeOff))
           /\ ~obs'.cb.called
           /\ obs'.notify = <<>>
           /\ obs'.nsend = 0
           /\ obs'.attach = "none"
           /\ ~obs'.closed
           /\ st' = st
           /\ ~st.shutting_down_ => pc' = "poll" ]_vars

\* C33 witness: a chunk that says it holds 9 bytes in a packet with room for 2 was
\* taken off the socket, all 21 bytes, and nothing was told to anyone.
C33_Witness ==
    /\ obs.branch = "adb-readable"
    /\ obs.consumed = 21
    /\ obs.peeked
    /\ ~obs.cb.called
    /\ obs.notify = <<>>
    /\ obs.attach = "none"
    /\ ~st.notified_ddm_active_ /\ ~st.agent_loaded_
    /\ st.adb_connection_socket_ # -1

\* SendAgentFds was called in the step and its sendmsg failed
HandoffFailed == obs'.handoff # "none" /\ ~obs'.handoffOk

\* C34: a SendAgentFds whose sendmsg fails leaves sent_agent_fds_ as it was and changes
\* no field: the step changes only what its branch assigns before the call
\* (agent_listening_ on listen-start, adb_connection_socket_ on an adoption), and
\* closes nothing.  The state it leaves has the agent loaded and listening and the jdwp
\* socket owned, and from such a state with sent_agent_fds_ false SendAgentFds is
\* called again when the jdwp socket is readable and when listen-start comes.
C34_FailedHandoffRetried ==
    [][ /\ HandoffFailed
             => /\ st'.sent_agent_fds_ = st.sent_agent_fds_
                /\ ~obs'.closed
                /\ st' = CASE obs'.branch = "agent-control"
                                -> [st EXCEPT !.agent_listening_ = TRUE]
                           [] obs'.branch = "control-readable"
                                -> [st EXCEPT !.adb_connection_socket_ = env.next_fd]
                           [] OTHER -> st
                /\ st'.agent_loaded_ /\ st'.agent_listening_
                /\ st'.adb_connection_socket_ # -1
                /\ (~st'.sent_agent_fds_ /\ ~st'.agent_has_socket_) => WatchAdbSocket(st')
        /\ (obs'.branch = "adb-readable" /\ st.agent_loaded_
            /\ st.agent_listening_ /\ ~st.sent_agent_fds_)
             => /\ obs'.handoff = kPerformHandshakeMessage
                /\ obs'.handoffFd = st.adb_connection_socket_
                /\ st'.sent_agent_fds_ = obs'.handoffOk
        /\ (AgentToken(kListenStartMessage) /\ st.adb_connection_socket_ # -1)
             => /\ obs'.handoff # "none"
                /\ st'.sent_agent_fds_ = (st.sent_agent_fds_ \/ obs'.handoffOk) ]_vars

\* C34 witness: the sendmsg of a handoff made for data on the jdwp socket failed; the
\* data is still unread and the socket still watched, so the next poll returns for it.
C34_Witness ==
    /\ obs.branch = "adb-readable"
    /\ obs.handoff # "none" /\ ~obs.handoffOk
    /\ ~st.sent_agent_fds_
    /\ st.agent_loaded_ /\ st.agent_listening_
    /\ pc = "poll"
    /\ AdbSocketPollIn(FALSE)

\* agent_listening_, agent_has_socket_ and sent_agent_fds_ are set only with the agent loaded
AgentFlagsImplyLoaded ==
    (st.agent_listening_ \/ st.agent_has_socket_ \/ st.sent_agent_fds_) => st.agent_loaded_

\* C35: agent_listening_, agent_has_socket_ and sent_agent_fds_ each imply
\* agent_loaded_ before and after every step, and agent_loaded_ once true stays true;
\* HandleDataWithoutAgent runs only with agent_loaded_ and agent_listening_ false (its
\* two DCHECKs never fail), and AttachJdwpAgent is never called with the agent loaded.
C35_AgentFlagsNeedLoadedAgent ==
    [][ /\ AgentFlagsImplyLoaded /\ AgentFlagsImplyLoaded'
        /\ st.agent_loaded_ => st'.agent_loaded_
        /\ obs'.dcheck \cap {"HandleDataWithoutAgent: !agent_loaded_",
                             "HandleDataWithoutAgent: !agent_listening_"} = {}
        /\ (obs'.peeked \/ obs'.attach # "none")
             => /\ obs'.branch = "adb-readable"
                /\ ~st.agent_loaded_ /\ ~st.agent_listening_
        /\ (obs'.branch = "adb-readable" /\ ~st.agent_loaded_) => ~st.agent_listening_
        /\ obs'.attach = "ok" <=> (st'.agent_loaded_ /\ ~st.agent_loaded_) ]_vars

\* C35 witness: the agent, attached by the local handler on this connection, is
\* listening, has taken the socket and has been sent the descriptors.
C35_Witness ==
    /\ st.agent_loaded_ /\ st.agent_listening_
    /\ st.agent_has_socket_ /\ st.sent_agent_fds_
    /\ hist.escalated

\* C36: SendAgentFds is never entered with sent_agent_fds_ already true, that is, its
\* DCHECK(!sent_agent_fds_) fails in no step, whatever tokens the agent sends.
C36_HandoffNeverRepeated ==
    "SendAgentFds: !sent_agent_fds_" \notin obs.dcheck

\* the threads that hold the token of adb_write_event_fd_
TokenHolders == {t \in Threads : obs.data_[t] > 0}

\* the thread is about to construct a ScopedEventFdLock
AtAcquire(t) == pc[t] \in {"send", "close_lock", "receive_lock"}

\* the thread is outside every call that takes the lock
AtRest(t) == pc[t] \in {"loop", "idle"}

\* the token is in the eventfd or with exactly one thread
TokenConserved ==
    /\ env.write_lock \in {0, 1}
    /\ \A t \in Threads : obs.data_[t] \in {0, 1}
    /\ Cardinality(TokenHolders) = 1 - env.write_lock

\* C37: the count of adb_write_event_fd_ is 0 or 1 before and after every step, and the
\* token is either in it or with exactly one thread; a thread takes the token only
\* when it holds none (the worker included), a thread that holds it is inside a
\* guarded section, and a thread back between calls holds none, whether SendDdmPacket
\* returned early or wrote, whether the receipt of a connection succeeded, failed or
\* was dropped, and after CloseFds; each release puts back the one token taken.
C37_OneTokenOneHolder ==
    [][ /\ TokenConserved /\ TokenConserved'
        /\ \A t \in Threads :
             /\ AtAcquire(t) => obs.data_[t] = 0
             /\ AtRest(t)' => obs'.data_[t] = 0
             /\ (obs'.data_[t] = 1 /\ pc'[t] # "aborted") => InWriteGuard(t)'
             /\ (obs.data_[t] = 0 /\ obs'.data_[t] = 1)
                  => /\ AtAcquire(t)
                     /\ env.write_lock = 1 /\ env'.write_lock = 0
             /\ (obs.data_[t] = 1 /\ obs'.data_[t] = 0)
                  => /\ pc[t] \in {"unlock", "close_unlock", "receive_unlock"}
                     /\ env.write_lock = 0 /\ env'.write_lock = 1 ]_vars

\* C37 witness: a publisher that found no jdwp socket is on the early return of
\* SendDdmPacket, still holding the token, while the worker waits for it to receive a
\* connection.
C37_Witness ==
    /\ \E t \in Publishers : pc[t] = "unlock" /\ obs.data_[t] = 1
    /\ st.adb_connection_socket_ = -1
    /\ pc[Worker] = "receive_lock"
    /\ env.write_lock = 0

\* SendDdmPacket, called now by a thread that publishes, would pass its check and write
PublishWrites ==
    LET w == [st |-> st, env |-> env, obs |-> NoObs, hist |-> hist]
    IN  SendDdmPacket(w, 1, DdmPacketType_kCmd, 0, <<>>).obs.nsend = 1

\* C38: a publish writes only while a jdwp socket is owned and performed_handshake_ is
\* true, and whenever a publish would write, the handshake of the connection it writes
\* to has been completed, here or by the agent.
C38_NoPublishBeforeHandshake ==
    /\ PublishWrites <=> (st.adb_connection_socket_ # -1 /\ st.performed_handshake_)
    /\ PublishWrites => hist.handshook

\* C39: in a process that is not debuggable the worker owns no jdwp socket and loads no
\* agent, serves neither the agent's control socket nor the jdwp socket, so that none
\* of the CHECK(IsDebuggingPossible()) of the poll loop is reached, and when adbd's
\* control socket is readable it receives nothing and only resets control_ctx_.
C39_ProfileableOnly ==
    [][ ~env.debuggable
        => /\ st'.adb_connection_socket_ = -1
           /\ ~st'.agent_loaded_
           /\ obs'.branch \notin {"agent-control", "agent-control-retry",
                                  "adb-readable", "adb-hangup"}
           /\ obs'.check = {} /\ pc' # "aborted"
           /\ obs'.msg = "none" /\ obs'.consumed = 0 /\ ~obs'.peeked
           /\ obs'.attach = "none" /\ obs'.handoff = "none" /\ obs'.nsend = 0
           /\ obs'.branch = "control-readable"
                => /\ st' = [st EXCEPT !.control_ctx_ = FALSE]
                   /\ env' = env
                   /\ (~st.shutting_down_ => pc' = "connect") ]_vars

\* C39 witness: in a process that is not debuggable adbd offered a connection; the
\* worker served the readable control socket, and the session is gone with the
\* connection still not received.
C39_Witness ==
    /\ ~env.debuggable
    /\ obs.branch = "control-readable"
    /\ ~st.control_ctx_
    /\ env.daemon_ev = "fd"
    /\ st.adb_connection_socket_ = -1

\* C40: for a message of 0 to 256 bytes the terminating '\0' is written at an index
\* of buf, that is, at most at 256.
C40_TerminatorInsideBuffer ==
    pc \in {"compare", "aborted"} => obs.nul \in BufIndices

====
